---- MODULE Spec2Model ----
(***************************************************************************)
(* A model of the blog client: the comment section of the post detail     *)
(* page (CommentSection), the main feed (MainPage) and the post views     *)
(* that read and mutate posts (DetailPage, MyPage, ProfilePage, EditPage), *)
(* together with the backend tables they talk to.                          *)
(***************************************************************************)
EXTENDS Integers, Sequences, FiniteSets, TLC

\* ------------------------------------------------------------------------
\* Program constants
\* ------------------------------------------------------------------------
COMMENTS_PER_PAGE == 20

POSTS_PER_PAGE == 12

MAX_COMMENT_LENGTH == 1000

\* ------------------------------------------------------------------------
\* Bounds of the model
\* ------------------------------------------------------------------------
\* rows that the comment handlers may add to the comments table in one run
MaxNewRows == 1

\* comment page fetches that may be in flight at once
MaxInflight == 2

\* like calls that may be in flight at once
MaxLikeCalls == 2

\* handleLikeComment calls in one run
MaxLikeOps == 2

\* identity changes (sign-in, sign-out) in one run
MaxAuthChanges == 1

\* highest comment page index a load-more may ask for
MaxPage == 1

\* feed page fetches that may be in flight at once
MaxFeedInflight == 3

\* highest feed page index the scroll observer may ask for
MaxFeedPage == 3

\* changes of the feed's sort order in one run
MaxSortChanges == 2

\* page mounts in one run
MaxNavs == 3

\* updates of a comment's body sent in one run
MaxEdits == 1

\* loadProfile calls in one run
MaxLoads == 4

\* changes of the backend's session (sign-in, token refresh, sign-out) in one run
MaxSessionChanges == 2

\* DetailPage.handleLike calls in one run
MaxPostLikes == 2

\* inserts and updates of posts sent from the forms in one run
MaxPostCalls == 2

\* calls of handleSearch in one run
MaxSearches == 3

\* files picked or dropped in one run
MaxPicks == 2

\* updates of the profile sent from the modal in one run
MaxProfileSaves == 2

\* edits made from other browsers in one run
MaxElsewhere == 1

\* public posts the table of the post pages starts with
PublicPosts == 2

\* ------------------------------------------------------------------------
\* Identities.  Me is the identity that signs in to this browser; the
\* Actors wrote the comments the user acts on; the Bystander only wrote
\* the older comments that fill a page.
\* ------------------------------------------------------------------------
Null == "null"

Me == "u1"

Actors == {"u1", "u2"}

Bystander == "u3"

Identities == {Null, Me}

\* bodies typed into the comment and reply boxes: raw length and trimmed length
BodyInputs ==
    { [raw |-> 0, trimmed |-> 0],
      [raw |-> 5, trimmed |-> 5],
      [raw |-> 1001, trimmed |-> 1001] }

VARIABLES
    dbComments,      \* comments table: row i has id i, created in id order
    dbLikes,         \* comment_likes table: set of <<comment_id, user_id>>
    user,            \* useAuth().user: Null or a user id
    authChanges,     \* number of identity changes so far
    cs_comments,     \* CommentSection: comments
    cs_loading,      \* CommentSection: loading
    cs_hasMore,      \* CommentSection: hasMore
    cs_page,         \* CommentSection: page
    cs_replyingTo,   \* CommentSection: replyingToCommentId (0 is null)
    cs_fetches,      \* fetchComments calls awaiting their response
    cs_likeCalls,    \* handleLikeComment calls awaiting their response
    likeOps,         \* number of handleLikeComment calls so far
    toast,           \* the notification the last step raised ("none" if none)
    tg,              \* the run of like toggles in progress, with the state before it
    dbPosts,         \* posts table: row i has id i, created in id order
    mp_posts,        \* MainPage: posts
    mp_loading,      \* MainPage: loading
    mp_loadingMore,  \* MainPage: loadingMore
    mp_hasMore,      \* MainPage: hasMore
    mp_sortBy,       \* MainPage: sortBy
    mp_page,         \* MainPage: page
    mp_fetches,      \* fetchPosts calls awaiting their response
    mp_epoch,        \* number of changes of sortBy so far
    mp_short,        \* a fetch of the listing shown has returned a short page
    dbPostLikes,     \* post_likes table: set of <<post_id, user_id>>
    route,           \* the route on screen, its parameters and its mount number
    navs,            \* number of page mounts so far
    pv_fetches,      \* page fetches awaiting their response
    dp_post,         \* DetailPage: post
    dp_loading,      \* DetailPage: loading
    dp_showDeleteModal, \* DetailPage: showDeleteModal
    pp_posts,        \* ProfilePage: posts
    pp_deleteModalOpen, \* ProfilePage: deleteModalOpen
    pp_postToDelete, \* ProfilePage: postToDelete (0 is null)
    my_posts,        \* MyPage: posts
    my_likedPosts,   \* MyPage: likedPosts
    my_activeTab,    \* MyPage: activeTab
    my_deleteModalOpen, \* MyPage: deleteModalOpen
    my_postToDelete, \* MyPage: postToDelete (0 is null)
    ep_isFetching,   \* EditPage: isFetching
    ep_isPublic,     \* EditPage: isPublic
    mutation,        \* the last update or delete of a post sent to the backend
    elsewhere,       \* number of edits made from other browsers so far
    cs_editing,      \* CommentSection: editingCommentId (0 is null)
    cmut,            \* the last update of a comment's body sent to the backend
    session,         \* the session the auth backend holds: Null or a user id
    profile,         \* useAuth().profile
    loading,         \* useAuth().loading
    dbProfiles,      \* profiles table
    au_calls,        \* loadProfile calls awaiting a response
    au_loads,        \* number of loadProfile calls so far
    au_init,         \* the promise of getSession(): "pending" or "done"
    au_notes,        \* session changes not yet handed to the listener
    au_changes,      \* number of changes of the backend's session so far
    au_out,          \* signOut: "idle", "awaiting" or "returned"
    au_inserts,      \* profile rows loadProfile has inserted so far
    au_retries,      \* loadProfile calls made after an insert so far
    au_path,         \* the route the browser is on
    reload,          \* the reload of the comment list a create has started
    dp_isLiked,      \* DetailPage: isLiked
    dp_likesCount,   \* DetailPage: likesCount
    dp_isLiking,     \* DetailPage: isLiking
    pl_calls,        \* checkLikeStatus and handleLike calls awaiting their response
    pl_ops,          \* number of DetailPage.handleLike calls so far
    wp_form,         \* WritePage / EditPage: title, content and tags of the form
    wp_call,         \* the last insert or update of a post the form has sent
    pe_form,         \* ProfileEditModal: nickname and bio
    pe_call,         \* the last update of the profile the modal has sent
    up_jobs,         \* ImageUpload: uploadFile calls waiting for resizeImage
    up_uploads,      \* the upload calls made to the storage bucket
    up_n,            \* the number of files picked
    sb_query,        \* SearchBar: the text of the search box
    sb_show,         \* SearchBar: showSuggestions
    sb_focused,      \* the search box has the focus
    sb_recent,       \* SearchBar: recentSearches
    sb_stored,       \* local storage: recentSearches
    sb_selectedIndex, \* SearchBar: selectedIndex
    sb_asked,        \* the last call of handleSearch: its argument, the term it searched
    sb_key,          \* how handleSearch was last reached: Enter or a click on a suggestion
    sb_arrowed       \* an arrow key has highlighted a suggestion since the last search or clear

csOnly == <<dbComments, dbLikes, cs_comments, cs_loading, cs_hasMore, cs_page,
            cs_replyingTo, cs_fetches, cs_likeCalls, likeOps, tg, cs_editing, cmut>>

edVars == <<cs_editing, cmut>>

csVars == <<csOnly, user, authChanges, toast>>

mpVars == <<mp_posts, mp_loading, mp_loadingMore, mp_hasMore, mp_sortBy, mp_page,
            mp_fetches, mp_epoch, mp_short>>

pageVars == <<pv_fetches, dp_post, dp_loading, dp_showDeleteModal, pp_posts,
              pp_deleteModalOpen, pp_postToDelete, my_posts, my_likedPosts,
              my_activeTab, my_deleteModalOpen, my_postToDelete, ep_isFetching,
              ep_isPublic>>

pvVars == <<dbPostLikes, route, navs, pageVars, mutation, elsewhere>>

auVars == <<session, profile, loading, dbProfiles, au_calls, au_loads, au_init,
            au_notes, au_changes, au_out, au_inserts, au_retries, au_path>>

\* the state outside the comment section, the feed and the post pages
plVars == <<dp_isLiked, dp_likesCount, dp_isLiking, pl_calls, pl_ops>>

wpVars == <<wp_form, wp_call>>

peVars == <<pe_form, pe_call>>

upVars == <<up_jobs, up_uploads, up_n>>

sbVars == <<sb_query, sb_show, sb_focused, sb_recent, sb_stored, sb_selectedIndex, sb_asked,
            sb_key, sb_arrowed>>

utilVars == <<peVars, upVars, sbVars>>

extraVars == <<auVars, reload, plVars, wpVars, utilVars>>

vars == <<csVars, dbPosts, mpVars, pvVars, extraVars>>

\* ------------------------------------------------------------------------
\* Helpers
\* ------------------------------------------------------------------------
Min(a, b) == IF a < b THEN a ELSE b

Range(s) == { s[i] : i \in 1..Len(s) }

\* ------------------------------------------------------------------------
\* The backend
\* ------------------------------------------------------------------------
\* the comments the post starts with: one thread of u1 with a reply of u2,
\* then `filler` top-level comments of the bystander, then a late reply of
\* u1 to the first comment
InitRows(filler) ==
    [ i \in 1..(filler + 3) |->
        IF i = 1 THEN
            [parent_comment_id |-> 0, user_id |-> "u1", is_deleted |-> FALSE, content |-> 5]
        ELSE IF i = 2 THEN
            [parent_comment_id |-> 1, user_id |-> "u2", is_deleted |-> FALSE, content |-> 5]
        ELSE IF i = filler + 3 THEN
            [parent_comment_id |-> 1, user_id |-> "u1", is_deleted |-> FALSE, content |-> 5]
        ELSE
            [parent_comment_id |-> 0, user_id |-> Bystander, is_deleted |-> FALSE, content |-> 5] ]

FillerChoices == {0, COMMENTS_PER_PAGE}

\* the insert trigger of the comments table: a reply's parent must exist and
\* be a top-level comment
InsertAllowed(db, parent) ==
    parent = 0 \/ (parent \in 1..Len(db) /\ db[parent].parent_comment_id = 0)

\* supabase.from('comments').insert(row): the table after the insert
InsertComment(db, row) ==
    IF InsertAllowed(db, row.parent_comment_id) THEN Append(db, row) ELSE db

\* .select('*').eq('post_id', postId).order('created_at', desc).range(...)
PageRows(db, pageNum) ==
    LET n == Len(db)
        from == pageNum * COMMENTS_PER_PAGE
        to == Min(n, (pageNum + 1) * COMMENTS_PER_PAGE)
    IN  IF from >= to THEN <<>>
        ELSE [ k \in 1..(to - from) |->
                 LET id == n + 1 - (from + k)
                 IN  [id |-> id,
                      parent_comment_id |-> db[id].parent_comment_id,
                      user_id |-> db[id].user_id,
                      is_deleted |-> db[id].is_deleted,
                      content |-> db[id].content] ]

\* ------------------------------------------------------------------------
\* CommentSection.fetchComments: the thread built from one page
\* ------------------------------------------------------------------------
\* likesCount[comment.id] || 0
LikesCountOf(likes, id) == Cardinality({ l \in likes : l[1] = id })

\* userLikes.has(comment.id), for the identity the fetch was started under
UserLikes(likes, u, id) == u # Null /\ <<id, u>> \in likes

CommentsWithStats(rows, likes, u) ==
    [ k \in 1..Len(rows) |->
        [id |-> rows[k].id,
         parent_comment_id |-> rows[k].parent_comment_id,
         user_id |-> rows[k].user_id,
         is_deleted |-> rows[k].is_deleted,
         content |-> rows[k].content,
         likes_count |-> LikesCountOf(likes, rows[k].id),
         is_liked |-> UserLikes(likes, u, rows[k].id)] ]

\* a filter that lets every row through
AllAsTopLevel(c) == TRUE

\* commentsWithStats.filter((c) => !c.parent_comment_id)
IsTopLevel(c) == c.parent_comment_id = 0

TopLevelComments(cws) == SelectSeq(cws, IsTopLevel)

\* a grouping that hands every reply of the page to every parent
RepliesOfAny(cws, id) ==
    LET IsReply(c) == c.parent_comment_id # 0
    IN  SelectSeq(cws, IsReply)

\* repliesMap[id]: the page's rows whose parent is id, in fetched order
RepliesMap(cws, id) ==
    LET IsReplyTo(c) == c.parent_comment_id # 0 /\ c.parent_comment_id = id
    IN  SelectSeq(cws, IsReplyTo)

CommentsWithReplies(cws) ==
    LET top == TopLevelComments(cws)
    IN  [ k \in 1..Len(top) |->
            [id |-> top[k].id,
             parent_comment_id |-> top[k].parent_comment_id,
             user_id |-> top[k].user_id,
             is_deleted |-> top[k].is_deleted,
             content |-> top[k].content,
             likes_count |-> top[k].likes_count,
             is_liked |-> top[k].is_liked,
             replies |-> RepliesMap(cws, top[k].id)] ]

\* the tree fetchComments builds from page pageNum for identity u
BuildPage(db, likes, u, pageNum) ==
    CommentsWithReplies(CommentsWithStats(PageRows(db, pageNum), likes, u))

\* ------------------------------------------------------------------------
\* CommentSection: what the view renders
\* ------------------------------------------------------------------------
\* the comment list is rendered: not loading and not empty
ListShown == ~cs_loading /\ cs_comments # <<>>

\* what stands in the place of a comment's or a reply's content
RenderedBody(c) == IF c.is_deleted THEN "deleted-placeholder" ELSE "content"

\* a top-level comment's like and reply buttons, reply box and replies list
\* are all inside the branch for a comment that is not deleted
ShowsTopControls(c) == ~c.is_deleted

ShowsReplies(c) == ~c.is_deleted /\ c.replies # <<>>

\* a reply's like and reply buttons: inside the replies list, for a reply
\* that is not deleted
ShowsReplyControls(c, r) == ShowsReplies(c) /\ ~r.is_deleted

\* the edit and delete buttons of a top-level comment and of a reply
OwnTopButtons(c) == user # Null /\ user = c.user_id /\ ~c.is_deleted

OwnReplyButtons(c, r) == ShowsReplyControls(c, r) /\ user # Null /\ user = r.user_id

\* the replies rendered beneath a top-level comment
DisplayedReplies(c) == IF ShowsReplies(c) THEN c.replies ELSE <<>>

\* a reply into the thread of top-level comment c can be started: its own
\* reply button or the reply button of one of its replies is rendered
ReplyStartable(c) ==
    \/ ShowsTopControls(c)
    \/ \E j \in 1..Len(c.replies) : ShowsReplyControls(c, c.replies[j])

\* the reply box of a top-level comment
ReplyBoxShown(c) == ~c.is_deleted /\ cs_replyingTo = c.id

\* the id the reply button of reply r under comment c hands to handleReplyClick
ReplyButtonTarget(c, r) == c.id

\* the comments the modelled user acts on: those written by the actors
Pickable(c) == c.user_id \in Actors

\* rows added since the post's initial comments
NewRows(db) ==
    IF Len(db) >= COMMENTS_PER_PAGE + 3 THEN Len(db) - COMMENTS_PER_PAGE - 3
    ELSE Len(db) - 3

\* ------------------------------------------------------------------------
\* CommentSection: handlers
\* ------------------------------------------------------------------------
Idle == [phase |-> "idle", i |-> 0, j |-> 0, u |-> Null,
         pair |-> FALSE, flag |-> FALSE, count |-> 0, ok |-> TRUE]

FreeSlot(calls) == CHOOSE k \in 1..(Cardinality(calls) + 1) : \A f \in calls : f.k # k

\* fetchComments(pageNum, reset) up to its first await
FetchStarted(pageNum, reset) ==
    cs_fetches \cup
        { [pageNum |-> pageNum, reset |-> reset, user |-> user, k |-> FreeSlot(cs_fetches)] }

\* fetchComments after its awaits, the query having succeeded
FetchCommentsDone(f) ==
    /\ f \in cs_fetches
    /\ LET rows == PageRows(dbComments, f.pageNum)
           built == BuildPage(dbComments, dbLikes, f.user, f.pageNum)
       IN  IF rows = <<>>
           THEN /\ cs_hasMore' = FALSE
                /\ cs_comments' = IF f.reset THEN <<>> ELSE cs_comments
           ELSE /\ cs_comments' = IF f.reset THEN built ELSE cs_comments \o built
                /\ cs_hasMore' = (Len(rows) = COMMENTS_PER_PAGE)
    /\ cs_loading' = FALSE
    /\ cs_fetches' = cs_fetches \ {f}
    /\ toast' = "none"
    /\ tg' = Idle
    /\ UNCHANGED <<dbComments, dbLikes, user, authChanges, cs_page, cs_replyingTo, cs_likeCalls, likeOps>>

\* fetchComments after its await, the query having failed
FetchCommentsFail(f) ==
    /\ f \in cs_fetches
    /\ cs_loading' = FALSE
    /\ cs_fetches' = cs_fetches \ {f}
    /\ toast' = "fetch-error"
    /\ tg' = Idle
    /\ UNCHANGED <<dbComments, dbLikes, user, authChanges, cs_comments, cs_hasMore,
                   cs_page, cs_replyingTo, cs_likeCalls, likeOps>>

\* bodies at the edges of the checks: blank, one character, exactly the
\* limit, over the limit, and over the limit only by surrounding blanks
BoundaryBodies ==
    { [raw |-> 0, trimmed |-> 0],
      [raw |-> 3, trimmed |-> 0],
      [raw |-> 1, trimmed |-> 1],
      [raw |-> MAX_COMMENT_LENGTH, trimmed |-> MAX_COMMENT_LENGTH],
      [raw |-> MAX_COMMENT_LENGTH + 2, trimmed |-> MAX_COMMENT_LENGTH],
      [raw |-> MAX_COMMENT_LENGTH + 1, trimmed |-> MAX_COMMENT_LENGTH + 1] }

\* a check that turns down blank bodies only
OnlyBlankRejected(b) == b.trimmed = 0

\* the local checks of handleSubmitComment and handleSubmitReply
BodyRejected(b) == b.trimmed = 0 \/ b.raw > MAX_COMMENT_LENGTH

\* the message of the check that rejects body b
BodyError(b) == IF b.trimmed = 0 THEN "empty" ELSE "too-long"

handleSubmitComment(b) ==
    /\ user # Null                       \* the comment box is rendered
    /\ tg' = Idle
    /\ IF BodyRejected(b)
       THEN /\ toast' = BodyError(b)
            /\ UNCHANGED <<dbComments, dbLikes, user, authChanges, cs_comments, cs_loading,
                           cs_hasMore, cs_page, cs_replyingTo, cs_fetches, cs_likeCalls, likeOps>>
       ELSE /\ NewRows(dbComments) < MaxNewRows
            /\ Cardinality(cs_fetches) < MaxInflight
            /\ dbComments' = InsertComment(dbComments,
                   [parent_comment_id |-> 0, user_id |-> user,
                    is_deleted |-> FALSE, content |-> b.trimmed])
            /\ cs_fetches' = FetchStarted(0, TRUE)
            /\ cs_page' = 0
            /\ toast' = "comment-created"
            /\ UNCHANGED <<dbLikes, user, authChanges, cs_comments, cs_loading,
                           cs_hasMore, cs_replyingTo, cs_likeCalls, likeOps>>

handleReplyClick(commentId) ==
    /\ cs_replyingTo' = commentId
    /\ toast' = "none"
    /\ tg' = Idle
    /\ UNCHANGED <<dbComments, dbLikes, user, authChanges, cs_comments, cs_loading,
                   cs_hasMore, cs_page, cs_fetches, cs_likeCalls, likeOps>>

\* the reply button of top-level comment i
ReplyClickTop(i) ==
    /\ ListShown
    /\ i \in 1..Len(cs_comments)
    /\ ShowsTopControls(cs_comments[i])
    /\ Pickable(cs_comments[i])
    /\ handleReplyClick(cs_comments[i].id)

\* the reply button of reply j of top-level comment i
ReplyClickReply(i, j) ==
    /\ ListShown
    /\ i \in 1..Len(cs_comments)
    /\ j \in 1..Len(cs_comments[i].replies)
    /\ ShowsReplyControls(cs_comments[i], cs_comments[i].replies[j])
    /\ Pickable(cs_comments[i].replies[j])
    /\ handleReplyClick(ReplyButtonTarget(cs_comments[i], cs_comments[i].replies[j]))

\* the submit button of the reply box under top-level comment i
handleSubmitReply(i, b) ==
    /\ ListShown
    /\ i \in 1..Len(cs_comments)
    /\ ReplyBoxShown(cs_comments[i])
    /\ tg' = Idle
    /\ LET parentCommentId == cs_comments[i].id
       IN  IF user = Null \/ BodyRejected(b)
           THEN /\ toast' = IF user = Null THEN "login-required" ELSE BodyError(b)
                /\ UNCHANGED <<dbComments, dbLikes, user, authChanges, cs_comments,
                               cs_loading, cs_hasMore, cs_page, cs_replyingTo,
                               cs_fetches, cs_likeCalls, likeOps>>
           ELSE /\ NewRows(dbComments) < MaxNewRows
                /\ Cardinality(cs_fetches) < MaxInflight
                /\ dbComments' = InsertComment(dbComments,
                       [parent_comment_id |-> parentCommentId, user_id |-> user,
                        is_deleted |-> FALSE, content |-> b.trimmed])
                /\ toast' = IF InsertAllowed(dbComments, parentCommentId)
                            THEN "reply-created" ELSE "depth-error"
                /\ IF InsertAllowed(dbComments, parentCommentId)
                   THEN /\ cs_replyingTo' = 0
                        /\ cs_fetches' = FetchStarted(0, TRUE)
                        /\ cs_page' = 0
                   ELSE UNCHANGED <<cs_replyingTo, cs_fetches, cs_page>>
                /\ UNCHANGED <<dbLikes, user, authChanges, cs_comments, cs_loading,
                               cs_hasMore, cs_likeCalls, likeOps>>

\* an insert into the comments table that does not come from this view
DirectInsert(parent) ==
    /\ NewRows(dbComments) < MaxNewRows
    /\ parent \in 1..Len(dbComments)
    /\ dbComments[parent].user_id \in Actors
    /\ dbComments' = InsertComment(dbComments,
           [parent_comment_id |-> parent, user_id |-> "u2",
            is_deleted |-> FALSE, content |-> 5])
    /\ toast' = "none"
    /\ tg' = Idle
    /\ UNCHANGED <<dbLikes, user, authChanges, cs_comments, cs_loading, cs_hasMore,
                   cs_page, cs_replyingTo, cs_fetches, cs_likeCalls, likeOps>>

\* .update({is_deleted: true, ...}).eq('id', commentId).eq('user_id', user?.id)
SoftDeleteRows(db, commentId, u) ==
    [ k \in 1..Len(db) |->
        IF k = commentId /\ db[k].user_id = u
        THEN [db[k] EXCEPT !.is_deleted = TRUE]
        ELSE db[k] ]

\* setComments((prev) => prev.map((c) => c.id === commentId ? {...c, is_deleted: true} : c))
PatchDeleted(cs, commentId) ==
    [ k \in 1..Len(cs) |->
        IF cs[k].id = commentId THEN [cs[k] EXCEPT !.is_deleted = TRUE] ELSE cs[k] ]

handleDeleteComment(commentId) ==
    /\ dbComments' = SoftDeleteRows(dbComments, commentId, user)
    /\ cs_comments' = PatchDeleted(cs_comments, commentId)
    /\ toast' = "comment-deleted"
    /\ tg' = Idle
    /\ UNCHANGED <<dbLikes, user, authChanges, cs_loading, cs_hasMore, cs_page,
                   cs_replyingTo, cs_fetches, cs_likeCalls, likeOps>>

\* the delete button of top-level comment i, confirmed
DeleteClickTop(i) ==
    /\ ListShown
    /\ i \in 1..Len(cs_comments)
    /\ OwnTopButtons(cs_comments[i])
    /\ handleDeleteComment(cs_comments[i].id)

\* the delete button of reply j of top-level comment i, confirmed
DeleteClickReply(i, j) ==
    /\ ListShown
    /\ i \in 1..Len(cs_comments)
    /\ j \in 1..Len(cs_comments[i].replies)
    /\ OwnReplyButtons(cs_comments[i], cs_comments[i].replies[j])
    /\ handleDeleteComment(cs_comments[i].replies[j].id)

\* the comment or reply at position (i, j) of the list; j = 0 is the top-level one
Entry(cs, i, j) == IF j = 0 THEN cs[i] ELSE cs[i].replies[j]

\* handleLikeComment(commentId, isLiked) up to its await
LikeStart(i, j) ==
    /\ ListShown
    /\ i \in 1..Len(cs_comments)
    /\ j \in 0..Len(cs_comments[i].replies)
    /\ IF j = 0 THEN ShowsTopControls(cs_comments[i])
       ELSE ShowsReplyControls(cs_comments[i], cs_comments[i].replies[j])
    /\ Pickable(Entry(cs_comments, i, j))
    /\ LET c == Entry(cs_comments, i, j)
       IN  IF user = Null
           THEN /\ toast' = "login-required"
                /\ tg' = Idle
                /\ UNCHANGED <<cs_likeCalls, likeOps>>
           ELSE /\ Cardinality(cs_likeCalls) < MaxLikeCalls
                /\ likeOps < MaxLikeOps
                /\ likeOps' = likeOps + 1
                /\ cs_likeCalls' = cs_likeCalls \cup
                       { [commentId |-> c.id, isLiked |-> c.is_liked, user |-> user,
                          k |-> FreeSlot(cs_likeCalls)] }
                /\ toast' = "none"
                /\ tg' = IF tg.phase = "t1_done" /\ tg.i = i /\ tg.j = j /\ tg.u = user
                         THEN [tg EXCEPT !.phase = "t2_started"]
                         ELSE IF cs_likeCalls = {}
                         THEN [phase |-> "t1_started", i |-> i, j |-> j, u |-> user,
                               pair |-> (<<c.id, user>> \in dbLikes),
                               flag |-> c.is_liked, count |-> c.likes_count, ok |-> TRUE]
                         ELSE Idle
    /\ UNCHANGED <<dbComments, dbLikes, user, authChanges, cs_comments, cs_loading,
                   cs_hasMore, cs_page, cs_replyingTo, cs_fetches>>

\* the comment_likes table accepts the call: a delete always, an insert
\* unless the (comment, user) pair exists
LikeAccepted(likes, call) == call.isLiked \/ <<call.commentId, call.user>> \notin likes

LikesAfter(likes, call) ==
    IF call.isLiked THEN likes \ {<<call.commentId, call.user>>}
    ELSE likes \cup {<<call.commentId, call.user>>}

\* setComments((prev) => prev.map((c) => c.id === commentId ? {...} : c))
PatchLiked(cs, commentId, isLiked) ==
    [ k \in 1..Len(cs) |->
        IF cs[k].id = commentId
        THEN [cs[k] EXCEPT !.is_liked = ~isLiked,
                           !.likes_count = IF isLiked THEN @ - 1 ELSE @ + 1]
        ELSE cs[k] ]

\* handleLikeComment after its await
LikeSettle(call) ==
    /\ call \in cs_likeCalls
    /\ cs_likeCalls' = cs_likeCalls \ {call}
    /\ IF LikeAccepted(dbLikes, call)
       THEN /\ dbLikes' = LikesAfter(dbLikes, call)
            /\ cs_comments' = PatchLiked(cs_comments, call.commentId, call.isLiked)
       ELSE UNCHANGED <<dbLikes, cs_comments>>
    /\ toast' = IF LikeAccepted(dbLikes, call) THEN "none" ELSE "like-error"
    /\ tg' = IF tg.phase = "t1_started"
             THEN [tg EXCEPT !.phase = "t1_done", !.ok = LikeAccepted(dbLikes, call)]
             ELSE IF tg.phase = "t2_started"
             THEN [tg EXCEPT !.phase = "t2_done",
                             !.ok = tg.ok /\ LikeAccepted(dbLikes, call)]
             ELSE Idle
    /\ UNCHANGED <<dbComments, user, authChanges, cs_loading, cs_hasMore, cs_page,
                   cs_replyingTo, cs_fetches, likeOps>>

\* ------------------------------------------------------------------------
\* CommentSection: editing a comment
\* ------------------------------------------------------------------------
NoCommentMutation ==
    [kind |-> "none", id |-> 0, by |-> Null, owner |-> Null, filter |-> Null,
     matched |-> 0, n |-> 0]

\* bodies typed into the edit box: raw length and trimmed length
EditInputs == { [raw |-> 2, trimmed |-> 0], [raw |-> 7, trimmed |-> 7] }

\* what the backend may answer to an update that matches no row
ZeroRowAnswers == {"no-error", "error"}

\* the edit box stands in place of the content of a top-level comment
EditBoxShownTop(c) == ~c.is_deleted /\ cs_editing = c.id

\* the edit box stands in place of the content of a reply
EditBoxShownReply(c, r) == ShowsReplyControls(c, r) /\ cs_editing = r.id

\* the edit button handler: setEditingCommentId(id)
StartEdit(commentId) ==
    /\ cs_editing # commentId
    /\ cs_editing' = commentId
    /\ toast' = "none"
    /\ tg' = Idle
    /\ UNCHANGED <<dbComments, dbLikes, user, authChanges, cs_comments, cs_loading,
                   cs_hasMore, cs_page, cs_replyingTo, cs_fetches, cs_likeCalls,
                   likeOps, cmut>>

\* the edit button of top-level comment i
EditClickTop(i) ==
    /\ ListShown
    /\ OwnTopButtons(cs_comments[i])
    /\ StartEdit(cs_comments[i].id)

\* the edit button of reply j of top-level comment i
EditClickReply(i, j) ==
    /\ ListShown
    /\ OwnReplyButtons(cs_comments[i], cs_comments[i].replies[j])
    /\ StartEdit(cs_comments[i].replies[j].id)

\* the cancel button of the edit box
CancelEdit ==
    /\ ListShown
    /\ \E i \in 1..Len(cs_comments) :
           \/ EditBoxShownTop(cs_comments[i])
           \/ \E j \in 1..Len(cs_comments[i].replies) :
                  EditBoxShownReply(cs_comments[i], cs_comments[i].replies[j])
    /\ cs_editing' = 0
    /\ toast' = "none"
    /\ tg' = Idle
    /\ UNCHANGED <<dbComments, dbLikes, user, authChanges, cs_comments, cs_loading,
                   cs_hasMore, cs_page, cs_replyingTo, cs_fetches, cs_likeCalls,
                   likeOps, cmut>>

\* the rows .eq('id', commentId).eq('user_id', u) selects
OwnedRows(db, commentId, u) ==
    { k \in 1..Len(db) : k = commentId /\ db[k].user_id = u }

\* .update({content, updated_at}).eq('id', commentId).eq('user_id', u)
UpdateContentRows(db, commentId, u, content) ==
    [ k \in 1..Len(db) |->
        IF k \in OwnedRows(db, commentId, u)
        THEN [db[k] EXCEPT !.content = content]
        ELSE db[k] ]

\* handleEditComment(commentId) with body b in the edit box; answer is
\* the backend's answer should the update match no row
handleEditComment(commentId, b, answer) ==
    /\ tg' = Idle
    /\ IF b.trimmed = 0
       THEN /\ toast' = "empty"
            /\ UNCHANGED <<dbComments, dbLikes, user, authChanges, cs_comments,
                           cs_loading, cs_hasMore, cs_page, cs_replyingTo, cs_fetches,
                           cs_likeCalls, likeOps, cs_editing, cmut>>
       ELSE /\ cmut.n < MaxEdits
            /\ Cardinality(cs_fetches) < MaxInflight
            /\ cmut' = [kind |-> "edit", id |-> commentId, by |-> user,
                        owner |-> dbComments[commentId].user_id, filter |-> user,
                        matched |-> Cardinality(OwnedRows(dbComments, commentId, user)),
                        n |-> cmut.n + 1]
            /\ dbComments' = UpdateContentRows(dbComments, commentId, user, b.trimmed)
            /\ IF OwnedRows(dbComments, commentId, user) = {} /\ answer = "error"
               THEN /\ toast' = "edit-error"
                    /\ UNCHANGED <<cs_editing, cs_fetches, cs_page>>
               ELSE /\ toast' = "comment-edited"
                    /\ cs_editing' = 0
                    /\ cs_fetches' = FetchStarted(0, TRUE)
                    /\ cs_page' = 0
            /\ UNCHANGED <<dbLikes, user, authChanges, cs_comments, cs_loading,
                           cs_hasMore, cs_replyingTo, cs_likeCalls, likeOps>>

\* the save button of the edit box of top-level comment i
EditSaveTop(i, b, answer) ==
    /\ ListShown
    /\ EditBoxShownTop(cs_comments[i])
    /\ b.trimmed # 0              \* disabled={editContent.trim().length === 0}
    /\ handleEditComment(cs_comments[i].id, b, answer)

\* the save button of the edit box of reply j of top-level comment i
EditSaveReply(i, j, b, answer) ==
    /\ ListShown
    /\ EditBoxShownReply(cs_comments[i], cs_comments[i].replies[j])
    /\ b.trimmed # 0              \* disabled={editContent.trim().length === 0}
    /\ handleEditComment(cs_comments[i].replies[j].id, b, answer)

handleLoadMore ==
    /\ cs_hasMore /\ cs_comments # <<>>      \* the load-more button is rendered
    /\ cs_page < MaxPage
    /\ Cardinality(cs_fetches) < MaxInflight
    /\ cs_page' = cs_page + 1
    /\ cs_fetches' = FetchStarted(cs_page + 1, FALSE)
    /\ toast' = "none"
    /\ tg' = Idle
    /\ UNCHANGED <<dbComments, dbLikes, user, authChanges, cs_comments, cs_loading,
                   cs_hasMore, cs_replyingTo, cs_likeCalls, likeOps>>

\* routes wrapped in ProtectedRoute
Protected == {"mypage", "edit"}

\* the session store hands the views another identity (sign-in, sign-out);
\* a protected route without an identity gives way to the login page
AuthChange(u) ==
    /\ authChanges < MaxAuthChanges
    /\ u # user
    /\ user' = u
    /\ authChanges' = authChanges + 1
    /\ toast' = IF u = Null /\ route.page \in Protected THEN "login-required" ELSE "none"
    /\ tg' = Idle
    /\ route' = IF u = Null /\ route.page \in Protected
                 THEN [route EXCEPT !.page = "login"] ELSE route
    /\ UNCHANGED <<dbComments, dbLikes, cs_comments, cs_loading, cs_hasMore, cs_page,
                   cs_replyingTo, cs_fetches, cs_likeCalls, likeOps>>
    /\ UNCHANGED <<dbPosts, dbPostLikes, navs, pageVars, mutation, elsewhere>>
    /\ UNCHANGED edVars

\* ------------------------------------------------------------------------
\* The posts table
\* ------------------------------------------------------------------------
Sorts == {"latest", "popular"}

\* the posts the table starts with: two private posts, one of each actor,
\* then nPublic public posts whose authors alternate
InitPosts(nPublic) ==
    [ i \in 1..(nPublic + 2) |->
        [author_id |-> IF i % 2 = 1 THEN "u1" ELSE "u2",
         is_public |-> i > 2,
         live |-> TRUE,
         likes |-> i % 3,
         comments |-> i % 2] ]

FeedSizes == {3, POSTS_PER_PAGE, POSTS_PER_PAGE + 1, 2 * POSTS_PER_PAGE + 1}

\* the table's rows with their ids, in table order
PostRows(db) ==
    [ i \in 1..Len(db) |->
        [id |-> i, author_id |-> db[i].author_id, is_public |-> db[i].is_public,
         live |-> db[i].live, likes_count |-> db[i].likes, comments_count |-> db[i].comments] ]

Reverse(s) == [ k \in 1..Len(s) |-> s[Len(s) + 1 - k] ]

\* s[(from + 1)..to], clipped to s
Slice(s, from, to) ==
    LET hi == Min(Len(s), to)
    IN  IF from >= hi THEN <<>> ELSE [ k \in 1..(hi - from) |-> s[from + k] ]

\* ------------------------------------------------------------------------
\* MainPage
\* ------------------------------------------------------------------------
\* .eq('is_public', true).range(...), ordered by created_at descending for
\* 'latest' and in table order for 'popular'
FeedQuery(db, sort, pageNum) ==
    LET IsPublic(r) == r.live /\ r.is_public
        public == SelectSeq(PostRows(db), IsPublic)
        ordered == IF sort = "latest" THEN Reverse(public) ELSE public
    IN  Slice(ordered, pageNum * POSTS_PER_PAGE, (pageNum + 1) * POSTS_PER_PAGE)

Score(p) == p.likes_count + p.comments_count

RECURSIVE InsertByScore(_, _)
\* p put into the score-descending list s after the entries that score at
\* least as much
InsertByScore(s, p) ==
    IF s = <<>> THEN <<p>>
    ELSE IF Score(Head(s)) >= Score(p) THEN <<Head(s)>> \o InsertByScore(Tail(s), p)
    ELSE <<p>> \o s

RECURSIVE SortByScore(_)
\* postsWithStats.sort((a, b) => scoreB - scoreA): stable, score descending
SortByScore(s) ==
    IF s = <<>> THEN <<>>
    ELSE InsertByScore(SortByScore(SubSeq(s, 1, Len(s) - 1)), s[Len(s)])

\* the rows a fetch hands to setPosts, each marked with the fetch's epoch
PostsWithStats(rows, sort, epoch) ==
    LET tagged == [ k \in 1..Len(rows) |->
                      [id |-> rows[k].id, likes_count |-> rows[k].likes_count,
                       comments_count |-> rows[k].comments_count, epoch |-> epoch] ]
    IN  IF sort = "popular" THEN SortByScore(tagged) ELSE tagged

FeedFetchStarted(pageNum, sort, reset, epoch) ==
    mp_fetches \cup
        { [pageNum |-> pageNum, sort |-> sort, reset |-> reset, epoch |-> epoch,
           k |-> FreeSlot(mp_fetches)] }

\* fetchPosts after its awaits, the queries having succeeded
FetchPostsDone(f) ==
    /\ f \in mp_fetches
    /\ mp_fetches' = mp_fetches \ {f}
    /\ LET rows == FeedQuery(dbPosts, f.sort, f.pageNum)
       IN  /\ IF rows = <<>>
              THEN /\ mp_hasMore' = FALSE
                   /\ mp_posts' = IF f.reset THEN <<>> ELSE mp_posts
              ELSE /\ mp_posts' = IF f.reset
                                  THEN PostsWithStats(rows, f.sort, f.epoch)
                                  ELSE mp_posts \o PostsWithStats(rows, f.sort, f.epoch)
                   /\ mp_hasMore' = (Len(rows) = POSTS_PER_PAGE)
           /\ mp_short' = (mp_short \/ (f.epoch = mp_epoch /\ Len(rows) < POSTS_PER_PAGE))
    /\ mp_loading' = FALSE
    /\ mp_loadingMore' = FALSE
    /\ UNCHANGED <<mp_sortBy, mp_page, mp_epoch>>

\* fetchPosts after its first await, the posts query having failed
FetchPostsFail(f) ==
    /\ f \in mp_fetches
    /\ mp_fetches' = mp_fetches \ {f}
    /\ mp_loading' = FALSE
    /\ mp_loadingMore' = FALSE
    /\ UNCHANGED <<mp_posts, mp_hasMore, mp_sortBy, mp_page, mp_epoch, mp_short>>

\* the grid is rendered and the observer set by lastPostRef watches its last card
ObserverAttached == ~mp_loading /\ mp_posts # <<>> /\ ~mp_loadingMore

\* the last card scrolls into view: setPage(prev + 1), then the [page] effect
ObserverIntersect ==
    /\ ObserverAttached
    /\ mp_hasMore
    /\ mp_page < MaxFeedPage
    /\ Cardinality(mp_fetches) < MaxFeedInflight
    /\ mp_page' = mp_page + 1
    /\ mp_loadingMore' = TRUE
    /\ mp_fetches' = FeedFetchStarted(mp_page + 1, mp_sortBy, FALSE, mp_epoch)
    /\ UNCHANGED <<mp_posts, mp_loading, mp_hasMore, mp_sortBy, mp_epoch, mp_short>>

\* handleSortChange(newSort), then the [sortBy] effect when sortBy changed
handleSortChange(newSort) ==
    /\ mp_sortBy' = newSort
    /\ mp_posts' = <<>>
    /\ mp_hasMore' = TRUE
    /\ mp_short' = FALSE
    /\ IF newSort # mp_sortBy
       THEN /\ mp_epoch < MaxSortChanges
            /\ Cardinality(mp_fetches) < MaxFeedInflight
            /\ mp_epoch' = mp_epoch + 1
            /\ mp_loading' = TRUE
            /\ mp_fetches' = FeedFetchStarted(0, newSort, TRUE, mp_epoch + 1)
            /\ mp_page' = 0
       ELSE UNCHANGED <<mp_epoch, mp_loading, mp_fetches, mp_page>>
    /\ UNCHANGED mp_loadingMore

\* MainPage mounted: its state hooks at their initial values and the
\* [sortBy] effect's fetchPosts(0, 'latest', true) in flight
MainPageMounted ==
    /\ mp_posts = <<>>
    /\ mp_loading = TRUE
    /\ mp_loadingMore = FALSE
    /\ mp_hasMore = TRUE
    /\ mp_sortBy = "latest"
    /\ mp_page = 0
    /\ mp_fetches = { [pageNum |-> 0, sort |-> "latest", reset |-> TRUE, epoch |-> 0, k |-> 1] }
    /\ mp_epoch = 0
    /\ mp_short = FALSE

\* ------------------------------------------------------------------------
\* Pages that show posts: DetailPage, ProfilePage, MyPage, EditPage
\* ------------------------------------------------------------------------
NoPost == [id |-> 0, author_id |-> Null, is_public |-> TRUE]

NoMutation ==
    [kind |-> "none", id |-> 0, by |-> Null, author |-> Null, filter |-> "none"]

\* what a view keeps of a fetched row
Snap(r) == [id |-> r.id, author_id |-> r.author_id, is_public |-> r.is_public]

\* the rows still in the table, newest first
LiveRows(db) ==
    LET IsLive(r) == r.live
    IN  Reverse(SelectSeq(PostRows(db), IsLive))

SnapAll(rows) == [ k \in 1..Len(rows) |-> Snap(rows[k]) ]

\* the backend applies .delete().eq('id', postId)
DeleteRow(db, postId) == [db EXCEPT ![postId].live = FALSE]

\* the posts the view on screen holds
Held ==
    CASE route.page = "detail" -> IF dp_post = NoPost THEN {} ELSE {dp_post}
      [] route.page = "profile" -> Range(pp_posts)
      [] route.page = "mypage" -> Range(my_posts) \cup Range(my_likedPosts)
      [] OTHER -> {}

\* the state hooks of every page at their initial values
PageHooksInitial ==
    /\ dp_post' = NoPost
    /\ dp_loading' = TRUE
    /\ dp_showDeleteModal' = FALSE
    /\ pp_posts' = <<>>
    /\ pp_deleteModalOpen' = FALSE
    /\ pp_postToDelete' = 0
    /\ my_posts' = <<>>
    /\ my_likedPosts' = <<>>
    /\ my_activeTab' = "my-posts"
    /\ my_deleteModalOpen' = FALSE
    /\ my_postToDelete' = 0
    /\ ep_isFetching' = TRUE
    /\ ep_isPublic' = TRUE

\* the fetch a page's mount effect starts, as a set
MountFetch(page, postId, userId, m) ==
    LET f == [page |-> page, postId |-> postId, userId |-> userId, user |-> user,
              tab |-> "my-posts", mount |-> m]
    IN  CASE page = "detail" -> {f}
          [] page = "profile" -> {f}
          [] page \in Protected -> IF user = Null THEN {} ELSE {f}
          [] OTHER -> {}

\* the router puts a page on screen: the page left loses its state, the
\* page entered starts from its initial state and runs its mount effect;
\* pending is the set of responses still awaited
Enter(page, postId, userId, pending) ==
    LET target == IF page \in Protected /\ user = Null THEN "login" ELSE page
        m == navs + 1
    IN  /\ navs' = m
        /\ route' = [page |-> target, postId |-> postId, userId |-> userId, mount |-> m]
        /\ PageHooksInitial
        /\ pv_fetches' = pending \cup MountFetch(target, postId, userId, m)

\* the response f belongs to the page on screen
Mounted(f) == route.page = f.page /\ route.mount = f.mount

\* the user follows a link or opens an address
Navigate(page, postId, userId) ==
    /\ navs < MaxNavs
    /\ Enter(page, postId, userId, pv_fetches)
    /\ toast' = IF page \in Protected /\ user = Null THEN "login-required" ELSE "none"
    /\ UNCHANGED <<user, authChanges, dbPosts, dbPostLikes, mutation, elsewhere>>

\* DetailPage.fetchPost, from its response on; f.user is the identity the
\* effect's closure captured
FetchPostDone(f) ==
    LET row == PostRows(dbPosts)[f.postId]
        rest == pv_fetches \ {f}
    IN  /\ f.page = "detail"
        /\ IF ~row.live
           THEN /\ toast' = "post-not-found"
                /\ Enter("main", 0, Null, rest)
           ELSE IF ~row.is_public /\ row.author_id # f.user
           THEN /\ toast' = "private-post"
                /\ Enter("main", 0, Null, rest)
           ELSE /\ toast' = "none"
                /\ pv_fetches' = rest
                /\ dp_post' = IF Mounted(f) THEN Snap(row) ELSE dp_post
                /\ dp_loading' = IF Mounted(f) THEN FALSE ELSE dp_loading
                /\ UNCHANGED <<route, navs, dp_showDeleteModal, pp_posts,
                               pp_deleteModalOpen, pp_postToDelete, my_posts,
                               my_likedPosts, my_activeTab, my_deleteModalOpen,
                               my_postToDelete, ep_isFetching, ep_isPublic>>
        /\ UNCHANGED <<user, authChanges, dbPosts, dbPostLikes, mutation, elsewhere>>

\* DetailPage is past its loading screen and shows a post
DetailShown == route.page = "detail" /\ ~dp_loading /\ dp_post # NoPost

isAuthor == user = dp_post.author_id

\* DetailPage: the delete button, rendered for the author
DetailDeleteClick ==
    /\ DetailShown
    /\ isAuthor
    /\ ~dp_showDeleteModal
    /\ dp_showDeleteModal' = TRUE
    /\ toast' = "none"
    /\ UNCHANGED <<user, authChanges, dbPosts, dbPostLikes, route, navs, pv_fetches,
                   dp_post, dp_loading, pp_posts, pp_deleteModalOpen, pp_postToDelete,
                   my_posts, my_likedPosts, my_activeTab, my_deleteModalOpen,
                   my_postToDelete, ep_isFetching, ep_isPublic, mutation, elsewhere>>

\* DetailPage.handleDelete, the confirm button of the modal
handleDelete ==
    /\ DetailShown
    /\ dp_showDeleteModal
    /\ mutation' = [kind |-> "delete", id |-> route.postId, by |-> user,
                    author |-> dbPosts[route.postId].author_id, filter |-> "none"]
    /\ dbPosts' = DeleteRow(dbPosts, route.postId)
    /\ toast' = "post-deleted"
    /\ Enter("main", 0, Null, pv_fetches)
    /\ UNCHANGED <<user, authChanges, dbPostLikes, elsewhere>>

\* ProfilePage.fetchUserPosts, from its response on; the public-only
\* filter is added unless the closure saw the viewer's own profile
FetchUserPostsDone(f) ==
    LET isOwnProfile == f.user = f.userId
        Wanted(r) == r.author_id = f.userId /\ (isOwnProfile \/ r.is_public)
    IN  /\ f.page = "profile"
        /\ pv_fetches' = pv_fetches \ {f}
        /\ pp_posts' = IF Mounted(f)
                       THEN SnapAll(SelectSeq(LiveRows(dbPosts), Wanted))
                       ELSE pp_posts
        /\ toast' = "none"
        /\ UNCHANGED <<user, authChanges, dbPosts, dbPostLikes, route, navs,
                       dp_post, dp_loading, dp_showDeleteModal, pp_deleteModalOpen,
                       pp_postToDelete, my_posts, my_likedPosts, my_activeTab,
                       my_deleteModalOpen, my_postToDelete, ep_isFetching,
                       ep_isPublic, mutation, elsewhere>>

\* ProfilePage.handleDeleteClick on the k-th card, whose button is
\* rendered on the viewer's own profile
ProfileDeleteClick(k) ==
    /\ route.page = "profile"
    /\ user = route.userId
    /\ ~pp_deleteModalOpen
    /\ pp_postToDelete' = pp_posts[k].id
    /\ pp_deleteModalOpen' = TRUE
    /\ toast' = "none"
    /\ UNCHANGED <<user, authChanges, dbPosts, dbPostLikes, route, navs, pv_fetches,
                   dp_post, dp_loading, dp_showDeleteModal, pp_posts, my_posts,
                   my_likedPosts, my_activeTab, my_deleteModalOpen, my_postToDelete,
                   ep_isFetching, ep_isPublic, mutation, elsewhere>>

\* ProfilePage.handleDeleteConfirm
ProfileDeleteConfirm ==
    LET NotIt(p) == p.id # pp_postToDelete
    IN  /\ route.page = "profile"
        /\ pp_deleteModalOpen
        /\ pp_postToDelete # 0
        /\ mutation' = [kind |-> "delete", id |-> pp_postToDelete, by |-> user,
                        author |-> dbPosts[pp_postToDelete].author_id,
                        filter |-> "none"]
        /\ dbPosts' = DeleteRow(dbPosts, pp_postToDelete)
        /\ pp_posts' = SelectSeq(pp_posts, NotIt)
        /\ pp_deleteModalOpen' = FALSE
        /\ pp_postToDelete' = 0
        /\ toast' = "post-deleted"
        /\ UNCHANGED <<user, authChanges, dbPostLikes, route, navs, pv_fetches,
                       dp_post, dp_loading, dp_showDeleteModal, my_posts,
                       my_likedPosts, my_activeTab, my_deleteModalOpen,
                       my_postToDelete, ep_isFetching, ep_isPublic, elsewhere>>

\* MyPage.fetchMyPosts and MyPage.fetchLikedPosts, from their responses on
FetchMyPageDone(f) ==
    LET Mine(r) == r.author_id = f.user
        Liked(r) == <<r.id, f.user>> \in dbPostLikes
    IN  /\ f.page = "mypage"
        /\ pv_fetches' = pv_fetches \ {f}
        /\ my_posts' = IF Mounted(f) /\ f.tab = "my-posts"
                       THEN SnapAll(SelectSeq(LiveRows(dbPosts), Mine))
                       ELSE my_posts
        /\ my_likedPosts' = IF Mounted(f) /\ f.tab = "liked-posts"
                            THEN SnapAll(SelectSeq(LiveRows(dbPosts), Liked))
                            ELSE my_likedPosts
        /\ toast' = "none"
        /\ UNCHANGED <<user, authChanges, dbPosts, dbPostLikes, route, navs,
                       dp_post, dp_loading, dp_showDeleteModal, pp_posts,
                       pp_deleteModalOpen, pp_postToDelete, my_activeTab,
                       my_deleteModalOpen, my_postToDelete, ep_isFetching,
                       ep_isPublic, mutation, elsewhere>>

\* MyPage: a tab is chosen, and the effect on [user, activeTab] fetches it
SetActiveTab(tab) ==
    /\ route.page = "mypage"
    /\ tab # my_activeTab
    /\ my_activeTab' = tab
    /\ pv_fetches' = pv_fetches \cup
           { [page |-> "mypage", postId |-> route.postId, userId |-> route.userId,
              user |-> user, tab |-> tab, mount |-> route.mount] }
    /\ toast' = "none"
    /\ UNCHANGED <<user, authChanges, dbPosts, dbPostLikes, route, navs,
                   dp_post, dp_loading, dp_showDeleteModal, pp_posts,
                   pp_deleteModalOpen, pp_postToDelete, my_posts, my_likedPosts,
                   my_deleteModalOpen, my_postToDelete, ep_isFetching, ep_isPublic,
                   mutation, elsewhere>>

\* MyPage.handleDeleteClick on the k-th card of the my-posts tab
MyDeleteClick(k) ==
    /\ route.page = "mypage"
    /\ my_activeTab = "my-posts"
    /\ ~my_deleteModalOpen
    /\ my_postToDelete' = my_posts[k].id
    /\ my_deleteModalOpen' = TRUE
    /\ toast' = "none"
    /\ UNCHANGED <<user, authChanges, dbPosts, dbPostLikes, route, navs, pv_fetches,
                   dp_post, dp_loading, dp_showDeleteModal, pp_posts,
                   pp_deleteModalOpen, pp_postToDelete, my_posts, my_likedPosts,
                   my_activeTab, ep_isFetching, ep_isPublic, mutation, elsewhere>>

\* MyPage.handleDeleteConfirm
MyDeleteConfirm ==
    LET NotIt(p) == p.id # my_postToDelete
    IN  /\ route.page = "mypage"
        /\ my_deleteModalOpen
        /\ my_postToDelete # 0
        /\ mutation' = [kind |-> "delete", id |-> my_postToDelete, by |-> user,
                        author |-> dbPosts[my_postToDelete].author_id,
                        filter |-> "none"]
        /\ dbPosts' = DeleteRow(dbPosts, my_postToDelete)
        /\ my_posts' = SelectSeq(my_posts, NotIt)
        /\ my_deleteModalOpen' = FALSE
        /\ my_postToDelete' = 0
        /\ toast' = "post-deleted"
        /\ UNCHANGED <<user, authChanges, dbPostLikes, route, navs, pv_fetches,
                       dp_post, dp_loading, dp_showDeleteModal, pp_posts,
                       pp_deleteModalOpen, pp_postToDelete, my_likedPosts,
                       my_activeTab, ep_isFetching, ep_isPublic, elsewhere>>

\* EditPage.fetchPost, from its response on
FetchEditDone(f) ==
    LET row == PostRows(dbPosts)[f.postId]
        rest == pv_fetches \ {f}
    IN  /\ f.page = "edit"
        /\ IF ~row.live
           THEN /\ toast' = "post-not-found"
                /\ Enter("main", 0, Null, rest)
           ELSE IF row.author_id # f.user
           THEN /\ toast' = "no-permission"
                /\ Enter("main", 0, Null, rest)
           ELSE /\ toast' = "none"
                /\ pv_fetches' = rest
                /\ ep_isPublic' = IF Mounted(f) THEN row.is_public ELSE ep_isPublic
                /\ ep_isFetching' = IF Mounted(f) THEN FALSE ELSE ep_isFetching
                /\ UNCHANGED <<route, navs, dp_post, dp_loading, dp_showDeleteModal,
                               pp_posts, pp_deleteModalOpen, pp_postToDelete,
                               my_posts, my_likedPosts, my_activeTab,
                               my_deleteModalOpen, my_postToDelete>>
        /\ UNCHANGED <<user, authChanges, dbPosts, dbPostLikes, mutation, elsewhere>>

\* the backend applies .update({is_public}).eq('id', postId).eq('author_id', by)
UpdateRow(db, postId, by, isPublic) ==
    IF db[postId].live /\ db[postId].author_id = by
    THEN [db EXCEPT ![postId].is_public = isPublic]
    ELSE db

\* EditPage.handleSubmit with the form's fields valid and the visibility
\* switch set to isPublic; the page then moves on to the post
EditSubmit(isPublic) ==
    /\ route.page = "edit"
    /\ ~ep_isFetching
    /\ user # Null
    /\ navs < MaxNavs
    /\ mutation' = [kind |-> "update", id |-> route.postId, by |-> user,
                    author |-> dbPosts[route.postId].author_id, filter |-> user]
    /\ dbPosts' = UpdateRow(dbPosts, route.postId, user, isPublic)
    /\ toast' = "post-updated"
    /\ Enter("detail", route.postId, Null, pv_fetches)
    /\ UNCHANGED <<user, authChanges, dbPostLikes, elsewhere>>

\* the author of a post changes its visibility from another browser
EditElsewhere(postId, isPublic) ==
    /\ elsewhere < MaxElsewhere
    /\ dbPosts[postId].author_id # Me
    /\ dbPosts[postId].is_public # isPublic
    /\ elsewhere' = elsewhere + 1
    /\ dbPosts' = UpdateRow(dbPosts, postId, dbPosts[postId].author_id, isPublic)
    /\ UNCHANGED <<user, authChanges, toast, dbPostLikes, route, navs, pageVars, mutation>>

\* ------------------------------------------------------------------------
\* Session store (AuthProvider) and ProtectedRoute
\* ------------------------------------------------------------------------
\* the store holds no profile
NoProfile == [id |-> Null]

\* the profiles row of a user
ProfileRow(u) == [id |-> u]

\* a loadProfile call is sent: its select awaits the response
LoadStarted(u) == au_calls \cup { [k |-> au_loads + 1, userId |-> u, pc |-> "select"] }

\* loadProfile(userId) is called from a handler of the store
loadProfile(u) ==
    /\ au_loads < MaxLoads
    /\ au_calls' = LoadStarted(u)
    /\ au_loads' = au_loads + 1

\* the promise of getSession() resolves: the initial-session load
GetSessionThen ==
    /\ au_init = "pending"
    /\ au_init' = "done"
    /\ user' = session
    /\ IF session # Null
       THEN loadProfile(session) /\ UNCHANGED <<profile, loading>>
       ELSE loading' = FALSE /\ UNCHANGED <<profile, au_calls, au_loads>>
    /\ UNCHANGED <<session, dbProfiles, au_notes, au_changes, au_out, au_inserts,
                   au_retries, au_path>>

\* the backend's session changes (sign-in, token refresh) and the change is
\* queued for the listener
SessionChange(s) ==
    /\ au_changes < MaxSessionChanges
    /\ s # Null
    /\ session' = s
    /\ au_notes' = Append(au_notes, s)
    /\ au_changes' = au_changes + 1
    /\ UNCHANGED <<user, profile, loading, dbProfiles, au_calls, au_loads, au_init, au_out,
                   au_inserts, au_retries, au_path>>

\* the listener of onAuthStateChange runs on the oldest notification: the
\* session-change load
OnAuthStateChange ==
    /\ au_notes # <<>>
    /\ au_notes' = Tail(au_notes)
    /\ user' = Head(au_notes)
    /\ IF Head(au_notes) # Null
       THEN loadProfile(Head(au_notes)) /\ UNCHANGED <<profile, loading>>
       ELSE /\ profile' = NoProfile
            /\ loading' = FALSE
            /\ UNCHANGED <<au_calls, au_loads>>
    /\ UNCHANGED <<session, dbProfiles, au_init, au_changes, au_out, au_inserts,
                   au_retries, au_path>>

\* loadProfile: the select's response arrives
LoadProfileSelected(c) ==
    /\ c \in au_calls
    /\ c.pc = "select"
    /\ IF ProfileRow(c.userId) \in dbProfiles
       THEN /\ profile' = ProfileRow(c.userId)
            /\ loading' = FALSE
            /\ au_calls' = au_calls \ {c}
       ELSE /\ au_calls' = (au_calls \ {c}) \cup { [c EXCEPT !.pc = "getUser"] }
            /\ UNCHANGED <<profile, loading>>
    /\ UNCHANGED <<session, user, dbProfiles, au_loads, au_init, au_notes,
                   au_changes, au_out, au_inserts, au_retries, au_path>>

\* loadProfile after 'no row': auth.getUser() answers
LoadProfileGotUser(c) ==
    /\ c \in au_calls
    /\ c.pc = "getUser"
    /\ IF session # Null
       THEN /\ au_calls' = (au_calls \ {c}) \cup { [c EXCEPT !.pc = "insert"] }
            /\ UNCHANGED <<profile, loading>>
       ELSE /\ profile' = NoProfile
            /\ loading' = FALSE
            /\ au_calls' = au_calls \ {c}
    /\ UNCHANGED <<session, user, dbProfiles, au_loads, au_init, au_notes,
                   au_changes, au_out, au_inserts, au_retries, au_path>>

\* the profiles table takes one row per identity
ProfileInsertAllowed(u) == ProfileRow(u) \notin dbProfiles

\* loadProfile after 'no row': the insert's response arrives; an accepted
\* insert is followed by one more loadProfile, a refused one clears the profile
LoadProfileInserted(c) ==
    /\ c \in au_calls
    /\ c.pc = "insert"
    /\ IF ProfileInsertAllowed(c.userId)
       THEN /\ au_loads < MaxLoads
            /\ dbProfiles' = dbProfiles \cup {ProfileRow(c.userId)}
            /\ au_calls' = (au_calls \ {c}) \cup
                              { [k |-> au_loads + 1, userId |-> c.userId, pc |-> "select"] }
            /\ au_loads' = au_loads + 1
            /\ au_inserts' = au_inserts + 1
            /\ au_retries' = au_retries + 1
            /\ loading' = FALSE
            /\ UNCHANGED profile
       ELSE /\ profile' = NoProfile
            /\ loading' = FALSE
            /\ au_calls' = au_calls \ {c}
            /\ UNCHANGED <<dbProfiles, au_loads, au_inserts, au_retries>>
    /\ UNCHANGED <<session, user, au_init, au_notes, au_changes, au_out, au_path>>

\* signOut is called: the backend ends the session and queues the change
SignOutStart ==
    /\ user # Null
    /\ au_out # "awaiting"
    /\ au_changes < MaxSessionChanges
    /\ au_changes' = au_changes + 1
    /\ au_out' = "awaiting"
    /\ session' = Null
    /\ au_notes' = Append(au_notes, Null)
    /\ UNCHANGED <<user, profile, loading, dbProfiles, au_calls, au_loads, au_init,
                   au_inserts, au_retries, au_path>>

\* a signOut that leaves the store to the listener
SignOutLeavesStore ==
    /\ au_out = "awaiting"
    /\ au_out' = "returned"
    /\ UNCHANGED <<user, profile>>

\* signOut: the await returns and the store is cleared
SignOutReturn ==
    /\ au_out = "awaiting"
    /\ au_out' = "returned"
    /\ user' = Null
    /\ profile' = NoProfile

\* the step of the store on which signOut returns
SignOutReturns ==
    /\ SignOutReturn
    /\ UNCHANGED <<session, loading, dbProfiles, au_calls, au_loads, au_init, au_notes,
                   au_changes, au_inserts, au_retries, au_path>>

\* a ProtectedRoute that looks at the identity alone
ProtectedRouteNoLoading ==
    IF user = Null THEN "redirect-login" ELSE "children"

\* what ProtectedRoute renders
ProtectedRoute ==
    IF loading THEN "loading-view"
    ELSE IF user = Null THEN "redirect-login"
    ELSE "children"

\* the routes of App and the page each one shows
Paths == {"/", "/write", "/edit", "/mypage", "/login"}

\* the routes whose element is wrapped in ProtectedRoute
GuardedPaths == {"/write", "/edit", "/mypage"}

PageOf(p) ==
    CASE p = "/" -> "MainPage"
      [] p = "/write" -> "WritePage"
      [] p = "/edit" -> "EditPage"
      [] p = "/mypage" -> "MyPage"
      [] p = "/login" -> "LoginPage"

\* what the element of route p renders
Element(p) ==
    IF p \notin GuardedPaths THEN PageOf(p)
    ELSE IF ProtectedRoute = "children" THEN PageOf(p)
    ELSE ProtectedRoute

\* the browser goes to another route
GoTo(p) ==
    /\ p # au_path
    /\ au_path' = p
    /\ UNCHANGED <<session, user, profile, loading, dbProfiles, au_calls, au_loads,
                   au_init, au_notes, au_changes, au_out, au_inserts, au_retries>>

\* ProtectedRoute without an identity: the effect raises the login notice
\* and <Navigate to="/login" replace /> takes the browser to the login page
ProtectedRedirect ==
    /\ au_path \in GuardedPaths
    /\ ProtectedRoute = "redirect-login"
    /\ au_path' = "/login"
    /\ toast' = "login-required"
    /\ UNCHANGED <<session, user, profile, loading, dbProfiles, au_calls, au_loads,
                   au_init, au_notes, au_changes, au_out, au_inserts, au_retries>>

\* the session store of the other specifications: the session is settled
\* and the profile of the identity, if any, is loaded
SessionStoreSettled ==
    /\ session = user
    /\ profile = IF user = Null THEN NoProfile ELSE ProfileRow(user)
    /\ loading = FALSE
    /\ dbProfiles = {ProfileRow(Me)}
    /\ au_calls = {}
    /\ au_loads = 0
    /\ au_init = "done"
    /\ au_notes = <<>>
    /\ au_changes = 0
    /\ au_out = "idle"
    /\ au_inserts = 0
    /\ au_retries = 0
    /\ au_path = "/"

\* ------------------------------------------------------------------------
\* DetailPage: liking the post
\* ------------------------------------------------------------------------
\* a handleLike that sends its call whoever is signed in
NoLoginCheck(u) == FALSE

\* if (!user) of handleLikeComment and of DetailPage.handleLike
LikeNeedsLogin(u) == u = Null

\* the likes of post postId in the post_likes table
PostLikesCount(likes, postId) == Cardinality({ l \in likes : l[1] = postId })

\* the post_likes table accepts the call: a delete always, an insert unless
\* the (post, user) pair exists
PostLikeAccepted(likes, c) == c.op = "delete" \/ <<c.postId, c.user>> \notin likes

PostLikesAfter(likes, c) ==
    IF c.op = "delete" THEN likes \ {<<c.postId, c.user>>}
    ELSE likes \cup {<<c.postId, c.user>>}

\* a handleLike that patches the page whatever the backend answers
PostLikeOptimistic(c, likes) ==
    IF c.op = "delete"
    THEN [isLiked |-> FALSE, toast |-> "none",
          likesCount |-> IF dp_likesCount > 0 THEN dp_likesCount - 1 ELSE 0]
    ELSE [isLiked |-> TRUE, likesCount |-> dp_likesCount + 1, toast |-> "none"]

\* handleLike after its await: the flag, the count and the notification
PostLikeOutcome(c, likes) ==
    IF c.op = "delete"
    THEN [isLiked |-> FALSE, toast |-> "none",
          likesCount |-> IF dp_likesCount > 0 THEN dp_likesCount - 1 ELSE 0]
    ELSE IF PostLikeAccepted(likes, c)
    THEN [isLiked |-> TRUE, likesCount |-> dp_likesCount + 1, toast |-> "none"]
    ELSE [isLiked |-> dp_isLiked, likesCount |-> dp_likesCount, toast |-> "already-liked"]

PostLikeRest ==
    UNCHANGED <<csOnly, user, authChanges, dbPosts, mpVars, navs, pageVars, mutation,
                auVars, reload, wpVars, utilVars>>

\* checkLikeStatus after its await
CheckLikeStatusDone(c) ==
    /\ c \in pl_calls
    /\ c.op = "check"
    /\ route.page = "detail"
    /\ pl_calls' = pl_calls \ {c}
    /\ dp_isLiked' = (<<c.postId, c.user>> \in dbPostLikes)
    /\ toast' = "none"
    /\ UNCHANGED <<dbPostLikes, route, elsewhere, dp_likesCount, dp_isLiking, pl_ops>>
    /\ PostLikeRest

\* DetailPage.handleLike up to its await
PostLikeStart ==
    /\ route.page = "detail"
    /\ pl_ops < MaxPostLikes
    /\ pl_ops' = pl_ops + 1
    /\ IF LikeNeedsLogin(user)
       THEN /\ toast' = "login-required"
            /\ route' = [route EXCEPT !.page = "login"]
            /\ UNCHANGED <<pl_calls, dp_isLiking>>
       ELSE /\ ~dp_isLiking
            /\ dp_isLiking' = TRUE
            /\ pl_calls' = pl_calls \cup
                   { [op |-> IF dp_isLiked THEN "delete" ELSE "insert",
                      postId |-> route.postId, user |-> user] }
            /\ toast' = "none"
            /\ UNCHANGED route
    /\ UNCHANGED <<dbPostLikes, elsewhere, dp_isLiked, dp_likesCount>>
    /\ PostLikeRest

\* DetailPage.handleLike after its await
PostLikeSettle(c) ==
    /\ c \in pl_calls
    /\ c.op # "check"
    /\ pl_calls' = pl_calls \ {c}
    /\ dbPostLikes' = IF PostLikeAccepted(dbPostLikes, c)
                      THEN PostLikesAfter(dbPostLikes, c) ELSE dbPostLikes
    /\ LET out == PostLikeOutcome(c, dbPostLikes)
       IN  /\ dp_isLiked' = out.isLiked
           /\ dp_likesCount' = out.likesCount
           /\ toast' = out.toast
    /\ dp_isLiking' = FALSE
    /\ UNCHANGED <<route, elsewhere, pl_ops>>
    /\ PostLikeRest

\* the user likes or unlikes the post from another browser
LikeElsewhere ==
    /\ elsewhere < MaxElsewhere
    /\ elsewhere' = elsewhere + 1
    /\ route.page = "detail"
    /\ dbPostLikes' = IF <<route.postId, Me>> \in dbPostLikes
                      THEN dbPostLikes \ {<<route.postId, Me>>}
                      ELSE dbPostLikes \cup {<<route.postId, Me>>}
    /\ UNCHANGED <<toast, route, dp_isLiked, dp_likesCount, dp_isLiking, pl_calls, pl_ops>>
    /\ PostLikeRest

\* the like state of a DetailPage that is not on screen
PostLikeIdle ==
    /\ dp_isLiked = FALSE
    /\ dp_likesCount = 0
    /\ dp_isLiking = FALSE
    /\ pl_calls = {}
    /\ pl_ops = 0

\* ------------------------------------------------------------------------
\* WritePage and EditPage: the form and its submission
\* ------------------------------------------------------------------------
\* titles typed into the form: raw length and trimmed length
TitleInputs ==
    { [raw |-> 0, trimmed |-> 0], [raw |-> 1, trimmed |-> 1], [raw |-> 3, trimmed |-> 1],
      [raw |-> 2, trimmed |-> 2], [raw |-> 4, trimmed |-> 2] }

\* bodies typed into the form: raw length and trimmed length
ContentInputs ==
    { [raw |-> 0, trimmed |-> 0], [raw |-> 9, trimmed |-> 9], [raw |-> 12, trimmed |-> 9],
      [raw |-> 10, trimmed |-> 10] }

\* the tags field split at its commas: the trimmed length of each piece
TagInputs ==
    { <<0>>, <<3, 0, 2>>, <<1, 1, 1, 1, 1>>, <<1, 0, 1, 1, 1, 1, 1, 2>> }

\* no insert or update of a post has been sent
NoPostCall == [kind |-> "none", title |-> 0, content |-> 0, tags |-> <<>>, n |-> 0]

\* the validation of handleSubmit: the message of the first check that fails
FormError(f) ==
    IF f.title.trimmed < 2 THEN "title-too-short"
    ELSE IF f.content.trimmed < 10 THEN "content-too-short"
    ELSE "none"

\* the tags field without its blank pieces
AllTags(pieces) ==
    LET NonBlank(t) == t > 0
    IN  SelectSeq(pieces, NonBlank)

\* tags.split(',').map(trim).filter(nonempty).slice(0, 5)
TagArray(pieces) ==
    LET NonBlank(t) == t > 0
    IN  Slice(SelectSeq(pieces, NonBlank), 0, 5)

EditorRest ==
    UNCHANGED <<csOnly, user, authChanges, mpVars, pvVars, auVars, reload, plVars, utilVars>>

\* the user fills in the form
SetForm(f) ==
    /\ f # wp_form
    /\ wp_form' = f
    /\ toast' = "none"
    /\ UNCHANGED <<wp_call, dbPosts>>

\* handleSubmit of WritePage ("insert") and of EditPage ("update"): the
\* checks, then the call with the trimmed fields and the tag array
handleSubmit(kind) ==
    /\ IF user = Null
       THEN toast' = "login-required" /\ UNCHANGED <<wp_call, dbPosts>>
       ELSE IF FormError(wp_form) # "none"
       THEN toast' = FormError(wp_form) /\ UNCHANGED <<wp_call, dbPosts>>
       ELSE IF kind = "insert" /\ Len(TagArray(wp_form.tags)) > 5
       THEN toast' = "too-many-tags" /\ UNCHANGED <<wp_call, dbPosts>>
       ELSE /\ wp_call.n < MaxPostCalls
            /\ wp_call' = [kind |-> kind, title |-> wp_form.title.trimmed,
                           content |-> wp_form.content.trimmed,
                           tags |-> TagArray(wp_form.tags), n |-> wp_call.n + 1]
            /\ dbPosts' = IF kind = "insert"
                          THEN Append(dbPosts, [author_id |-> user, is_public |-> TRUE,
                                                live |-> TRUE, likes |-> 0, comments |-> 0])
                          ELSE dbPosts
            /\ toast' = IF kind = "insert" THEN "post-created" ELSE "post-updated"
    /\ UNCHANGED wp_form

WritePageSubmit == handleSubmit("insert")

EditPageSubmit == handleSubmit("update")

\* the form of a page that is not on screen
EditorIdle ==
    /\ wp_form = [title |-> [raw |-> 0, trimmed |-> 0],
                  content |-> [raw |-> 0, trimmed |-> 0], tags |-> <<0>>]
    /\ wp_call = NoPostCall

\* ------------------------------------------------------------------------
\* ProfileEditModal: saving the profile
\* ------------------------------------------------------------------------
\* nicknames typed into the modal: raw length and trimmed length
NicknameInputs ==
    { [raw |-> 0, trimmed |-> 0], [raw |-> 2, trimmed |-> 0], [raw |-> 1, trimmed |-> 1],
      [raw |-> 2, trimmed |-> 1], [raw |-> 2, trimmed |-> 2], [raw |-> 20, trimmed |-> 20],
      [raw |-> 21, trimmed |-> 20], [raw |-> 21, trimmed |-> 21] }

\* bios typed into the modal: raw length and trimmed length
BioInputs ==
    { [raw |-> 0, trimmed |-> 0], [raw |-> 200, trimmed |-> 200], [raw |-> 201, trimmed |-> 201] }

\* no update of the profile has been sent
NoProfileCall == [nickname |-> 0, bio |-> 0, n |-> 0]

\* the validation of handleSave: the message of the first check that fails
ProfileFormError(f) ==
    IF f.nickname.trimmed = 0 THEN "nickname-required"
    ELSE IF f.nickname.raw < 2 \/ f.nickname.raw > 20 THEN "nickname-length"
    ELSE IF f.bio.raw > 200 THEN "bio-length"
    ELSE "none"

\* the user fills in the modal
SetProfileForm(f) ==
    /\ f # pe_form
    /\ pe_form' = f
    /\ toast' = "none"
    /\ UNCHANGED pe_call

\* ProfileEditModal.handleSave: the checks, then the update with the
\* trimmed nickname and bio
handleSave ==
    /\ IF ProfileFormError(pe_form) # "none"
       THEN toast' = ProfileFormError(pe_form) /\ UNCHANGED pe_call
       ELSE /\ pe_call.n < MaxProfileSaves
            /\ pe_call' = [nickname |-> pe_form.nickname.trimmed,
                           bio |-> pe_form.bio.trimmed, n |-> pe_call.n + 1]
            /\ toast' = "profile-updated"
    /\ UNCHANGED pe_form

\* the modal closed
ProfileModalIdle ==
    /\ pe_form = [nickname |-> [raw |-> 2, trimmed |-> 2], bio |-> [raw |-> 0, trimmed |-> 0]]
    /\ pe_call = NoProfileCall

\* ------------------------------------------------------------------------
\* Image pickers: ImageUpload (post cover) and ProfileEditModal (avatar)
\* ------------------------------------------------------------------------
ALLOWED_TYPES == {"image/jpeg", "image/png", "image/gif", "image/webp"}

MAX_SIZE == 5 * 1024 * 1024

\* the MIME types of the files picked; the first five start with "image/"
ImageTypes == ALLOWED_TYPES \cup {"image/svg+xml"}

FileTypes == ImageTypes \cup {"application/pdf"}

\* the files picked or dropped: 4MB, exactly 5MB, one byte more, 6MB
Files == [type : FileTypes,
          size : {4 * 1024 * 1024, MAX_SIZE, MAX_SIZE + 1, 6 * 1024 * 1024}]

\* ImageUpload.validateFile: the message of the first check that fails
validateFile(file) ==
    IF file.type \notin ALLOWED_TYPES THEN "type-not-allowed"
    ELSE IF file.size > MAX_SIZE THEN "file-too-large"
    ELSE "none"

\* the checks of ProfileEditModal.handleFileSelect
AvatarFileError(file) ==
    IF file.type \notin ImageTypes THEN "images-only"
    ELSE IF file.size > MAX_SIZE THEN "file-too-large"
    ELSE "none"

\* ImageUpload.uploadFile up to its first await: the checks, then the
\* resize is started
UploadFileStart(file) ==
    /\ up_n < MaxPicks
    /\ up_n' = up_n + 1
    /\ IF validateFile(file) # "none"
       THEN toast' = validateFile(file) /\ UNCHANGED <<up_jobs, up_uploads>>
       ELSE /\ up_jobs' = up_jobs \cup {[k |-> up_n + 1, file |-> file]}
            /\ UNCHANGED <<toast, up_uploads>>

\* ImageUpload.uploadFile after resizeImage: the resized blob is uploaded,
\* or the resize was rejected and nothing is uploaded
UploadFileResized(j, ok) ==
    /\ j \in up_jobs
    /\ up_jobs' = up_jobs \ {j}
    /\ IF ok
       THEN /\ up_uploads' = up_uploads \cup
                  {[k |-> j.k, picker |-> "cover", file |-> j.file, resized |-> TRUE]}
            /\ toast' = "image-uploaded"
       ELSE toast' = "upload-failed" /\ UNCHANGED up_uploads
    /\ UNCHANGED up_n

\* ProfileEditModal.handleFileSelect: the checks, then the file itself is
\* uploaded
handleFileSelect(file) ==
    /\ up_n < MaxPicks
    /\ up_n' = up_n + 1
    /\ IF AvatarFileError(file) # "none"
       THEN toast' = AvatarFileError(file) /\ UNCHANGED up_uploads
       ELSE /\ up_uploads' = up_uploads \cup
                  {[k |-> up_n + 1, picker |-> "avatar", file |-> file, resized |-> FALSE]}
            /\ toast' = "image-uploaded"
    /\ UNCHANGED up_jobs

\* no file has been picked
PickersIdle ==
    /\ up_jobs = {}
    /\ up_uploads = {}
    /\ up_n = 0

\* ------------------------------------------------------------------------
\* SearchBar: the search box and the recent searches
\* ------------------------------------------------------------------------
MAX_RECENT_SEARCHES == 5

\* the terms typed: a stored term, two terms searched before, a new term,
\* and nothing; each with or without blanks around it
TypedTerms == {"", "a", "c", "f"}

Queries == [pad : BOOLEAN, term : TypedTerms]

\* the empty search box
EmptyQuery == [pad |-> FALSE, term |-> ""]

\* the text of a term clicked or chosen from the list
AsTyped(term) == [pad |-> FALSE, term |-> term]

\* String.trim: the blanks around the term are dropped
Trim(q) == q.term

\* the lists local storage holds when the bar is mounted
StoredLists == { <<>>, <<"a", "b">>, <<"a", "b", "c", "d", "e">> }

\* no search has been run
NoSearch == [q |-> EmptyQuery, term |-> "", n |-> 0, nav |-> 0]

\* the list that leaves the term out of nothing: every entry is kept
KeepAll(s, t) == s

\* s without the term t, order kept
Without(s, t) == SelectSeq(s, LAMBDA x : x # t)

\* the first n entries of s
FirstN(s, n) == IF Len(s) <= n THEN s ELSE SubSeq(s, 1, n)

\* handleSearch: the new list of recent searches
RecentAfter(s, t) == FirstN(<<t>> \o Without(s, t), MAX_RECENT_SEARCHES)

\* SearchBar.handleSearch(searchQuery)
handleSearch(searchQuery) ==
    /\ sb_asked.n < MaxSearches
    /\ IF Trim(searchQuery) = ""
       THEN /\ sb_asked' = [sb_asked EXCEPT !.q = searchQuery, !.n = @ + 1]
            /\ UNCHANGED <<sb_query, sb_show, sb_focused, sb_recent, sb_stored,
                           sb_selectedIndex, sb_arrowed>>
       ELSE /\ sb_recent' = RecentAfter(sb_recent, Trim(searchQuery))
            /\ sb_stored' = RecentAfter(sb_recent, Trim(searchQuery))
            /\ sb_asked' = [q |-> searchQuery, term |-> Trim(searchQuery), n |-> sb_asked.n + 1,
                            nav |-> sb_asked.nav + 1]
            /\ sb_query' = EmptyQuery
            /\ sb_show' = FALSE
            /\ sb_focused' = FALSE
            /\ sb_arrowed' = FALSE
            /\ UNCHANGED sb_selectedIndex

\* the list of suggestions is rendered
SuggestionsShown == sb_show /\ Len(sb_recent) > 0

\* onFocus of the input
SearchFocus ==
    /\ ~sb_focused
    /\ sb_focused' = TRUE
    /\ sb_show' = TRUE
    /\ UNCHANGED <<sb_query, sb_recent, sb_stored, sb_selectedIndex, sb_asked, sb_key, sb_arrowed>>

\* onChange of the input
SetQuery(q) ==
    /\ sb_focused
    /\ q # sb_query
    /\ sb_query' = q
    /\ UNCHANGED <<sb_show, sb_focused, sb_recent, sb_stored, sb_selectedIndex, sb_asked,
                   sb_key, sb_arrowed>>

\* a mouse press outside the bar
handleClickOutside ==
    /\ sb_show \/ sb_focused
    /\ sb_show' = FALSE
    /\ sb_focused' = FALSE
    /\ UNCHANGED <<sb_query, sb_recent, sb_stored, sb_selectedIndex, sb_asked, sb_key, sb_arrowed>>

\* SearchBar.handleKeyDown: Enter
KeyEnter ==
    /\ sb_focused
    /\ sb_key' = "enter"
    /\ IF SuggestionsShown /\ sb_selectedIndex >= 0
       THEN handleSearch(AsTyped(sb_recent[sb_selectedIndex + 1]))
       ELSE handleSearch(sb_query)

\* SearchBar.handleKeyDown: ArrowDown and ArrowUp
KeyArrow(down) ==
    /\ sb_focused
    /\ SuggestionsShown
    /\ sb_selectedIndex' =
          IF down
          THEN IF sb_selectedIndex < Len(sb_recent) - 1
               THEN sb_selectedIndex + 1 ELSE sb_selectedIndex
          ELSE IF sb_selectedIndex > 0 THEN sb_selectedIndex - 1 ELSE -1
    /\ sb_arrowed' = (sb_arrowed \/ sb_selectedIndex' >= 0)
    /\ UNCHANGED <<sb_query, sb_show, sb_focused, sb_recent, sb_stored, sb_asked, sb_key>>

\* SearchBar.handleKeyDown: Escape
KeyEscape ==
    /\ sb_focused
    /\ SuggestionsShown
    /\ sb_show' = FALSE
    /\ sb_selectedIndex' = -1
    /\ UNCHANGED <<sb_query, sb_focused, sb_recent, sb_stored, sb_asked, sb_key, sb_arrowed>>

\* SearchBar.handleClear: the X button, rendered while the box holds text
handleClear ==
    /\ sb_query # EmptyQuery
    /\ sb_query' = EmptyQuery
    /\ sb_selectedIndex' = -1
    /\ sb_focused' = TRUE
    /\ sb_show' = TRUE
    /\ sb_arrowed' = FALSE
    /\ UNCHANGED <<sb_recent, sb_stored, sb_asked, sb_key>>

\* SearchBar.handleSuggestionClick
handleSuggestionClick(i) ==
    /\ SuggestionsShown
    /\ i \in 1..Len(sb_recent)
    /\ sb_key' = "click"
    /\ handleSearch(AsTyped(sb_recent[i]))

\* the bar after its first render and its load effect, local storage
\* holding the list s
SearchBarMounted(s) ==
    /\ sb_query = EmptyQuery
    /\ sb_show = FALSE
    /\ sb_focused = FALSE
    /\ sb_recent = s
    /\ sb_stored = s
    /\ sb_selectedIndex = -1
    /\ sb_asked = NoSearch
    /\ sb_key = "none"
    /\ sb_arrowed = FALSE

\* the state of the modal, the image pickers and the search bar at rest
UtilIdle ==
    /\ ProfileModalIdle
    /\ PickersIdle
    /\ SearchBarMounted(<<>>)

\* no create has reloaded the comment list, or the list has been asked
\* for more pages since
NoReload == [phase |-> "none", k |-> 0]

\* the reload that follows a create, from the fetch sent to its response:
\* fetchComments(0, true) of handleSubmitComment and handleSubmitReply is
\* pending from the insert on, settled by its response, dropped by its
\* failure and by a load-more
ReloadTracked ==
    reload' =
        IF dbComments' # dbComments
        THEN [phase |-> "pending", k |-> FreeSlot(cs_fetches)]
        ELSE IF cs_page' > cs_page
        THEN NoReload
        ELSE IF reload.phase = "pending" /\ \E f \in cs_fetches \ cs_fetches' : f.k = reload.k
        THEN IF toast' = "fetch-error" THEN NoReload ELSE [reload EXCEPT !.phase = "settled"]
        ELSE reload

\* the state outside the comment section, the feed and the post pages at rest
ExtraIdle ==
    /\ SessionStoreSettled
    /\ reload = NoReload
    /\ PostLikeIdle
    /\ EditorIdle
    /\ UtilIdle

\* no page that shows posts is on screen
PagesUnmounted ==
    /\ dbPostLikes = {}
    /\ route = [page |-> "main", postId |-> 0, userId |-> Null, mount |-> 0]
    /\ navs = 0
    /\ pv_fetches = {}
    /\ dp_post = NoPost
    /\ dp_loading = TRUE
    /\ dp_showDeleteModal = FALSE
    /\ pp_posts = <<>>
    /\ pp_deleteModalOpen = FALSE
    /\ pp_postToDelete = 0
    /\ my_posts = <<>>
    /\ my_likedPosts = <<>>
    /\ my_activeTab = "my-posts"
    /\ my_deleteModalOpen = FALSE
    /\ my_postToDelete = 0
    /\ ep_isFetching = TRUE
    /\ ep_isPublic = TRUE
    /\ mutation = NoMutation
    /\ elsewhere = 0

\* the feed is not on screen
MainPageUnmounted ==
    /\ mp_posts = <<>>
    /\ mp_loading = TRUE
    /\ mp_loadingMore = FALSE
    /\ mp_hasMore = TRUE
    /\ mp_sortBy = "latest"
    /\ mp_page = 0
    /\ mp_fetches = {}
    /\ mp_epoch = 0
    /\ mp_short = FALSE

\* the comment section's own state while it is not on screen
CommentSectionIdle ==
    /\ dbComments = InitRows(0)
    /\ dbLikes = {}
    /\ cs_comments = <<>>
    /\ cs_loading = TRUE
    /\ cs_hasMore = TRUE
    /\ cs_page = 0
    /\ cs_replyingTo = 0
    /\ cs_fetches = {}
    /\ cs_likeCalls = {}
    /\ likeOps = 0
    /\ tg = Idle
    /\ cs_editing = 0
    /\ cmut = NoCommentMutation

\* the comment section is not on screen and nobody is signed in
CommentSectionUnmounted ==
    /\ CommentSectionIdle
    /\ user = Null
    /\ authChanges = 0
    /\ toast = "none"

\* CommentSection mounted: its state hooks at their initial values and the
\* mount effect's fetchComments(0, true) in flight
InitComments ==
    /\ \E filler \in FillerChoices : dbComments = InitRows(filler)
    /\ dbLikes \in { {}, {<<2, "u1">>, <<1, "u2">>} }
    /\ user \in Identities
    /\ authChanges = 0
    /\ cs_comments = <<>>
    /\ cs_loading = TRUE
    /\ cs_hasMore = TRUE
    /\ cs_page = 0
    /\ cs_replyingTo = 0
    /\ cs_fetches = { [pageNum |-> 0, reset |-> TRUE, user |-> user, k |-> 1] }
    /\ cs_likeCalls = {}
    /\ likeOps = 0
    /\ toast = "none"
    /\ tg = Idle
    /\ cs_editing = 0
    /\ cmut = NoCommentMutation
    /\ dbPosts = InitPosts(3)
    /\ MainPageUnmounted
    /\ PagesUnmounted
    /\ ExtraIdle

CommentsFrame == UNCHANGED <<dbPosts, mpVars, pvVars, edVars, extraVars>>

NextComments ==
    \/ \E f \in cs_fetches : FetchCommentsDone(f) /\ CommentsFrame
    \/ \E f \in cs_fetches : FetchCommentsFail(f) /\ CommentsFrame
    \/ \E b \in BodyInputs : handleSubmitComment(b) /\ CommentsFrame
    \/ \E i \in 1..Len(cs_comments) : ReplyClickTop(i) /\ CommentsFrame
    \/ \E i \in 1..Len(cs_comments) : \E j \in 1..Len(cs_comments[i].replies) : ReplyClickReply(i, j) /\ CommentsFrame
    \/ \E i \in 1..Len(cs_comments) : \E b \in BodyInputs : handleSubmitReply(i, b) /\ CommentsFrame
    \/ \E p \in 1..Len(dbComments) : DirectInsert(p) /\ CommentsFrame
    \/ \E i \in 1..Len(cs_comments) : DeleteClickTop(i) /\ CommentsFrame
    \/ \E i \in 1..Len(cs_comments) : \E j \in 1..Len(cs_comments[i].replies) : DeleteClickReply(i, j) /\ CommentsFrame
    \/ \E i \in 1..Len(cs_comments) : \E j \in 0..Len(cs_comments[i].replies) : LikeStart(i, j) /\ CommentsFrame
    \/ \E call \in cs_likeCalls : LikeSettle(call) /\ CommentsFrame
    \/ handleLoadMore /\ CommentsFrame
    \/ \E u \in Identities : AuthChange(u) /\ CommentsFrame


SpecComments == InitComments /\ [][NextComments]_vars

\* CommentSection mounted on a post whose comments the signed-in user and
\* another user have liked before
InitCommentLikes ==
    /\ dbComments = InitRows(0)
    /\ dbLikes \in { {<<1, "u1">>}, {<<1, "u1">>, <<1, "u2">>} }
    /\ user = Me
    /\ authChanges = 0
    /\ cs_comments = <<>>
    /\ cs_loading = TRUE
    /\ cs_hasMore = TRUE
    /\ cs_page = 0
    /\ cs_replyingTo = 0
    /\ cs_fetches = { [pageNum |-> 0, reset |-> TRUE, user |-> user, k |-> 1] }
    /\ cs_likeCalls = {}
    /\ likeOps = 0
    /\ toast = "none"
    /\ tg = Idle
    /\ cs_editing = 0
    /\ cmut = NoCommentMutation
    /\ dbPosts = InitPosts(3)
    /\ MainPageUnmounted
    /\ PagesUnmounted
    /\ ExtraIdle

\* CommentSection with its like buttons only
NextCommentLikes ==
    \/ \E f \in cs_fetches : FetchCommentsDone(f) /\ CommentsFrame
    \/ \E i \in 1..Len(cs_comments) : \E j \in 0..Len(cs_comments[i].replies) : LikeStart(i, j) /\ CommentsFrame
    \/ \E call \in cs_likeCalls : LikeSettle(call) /\ CommentsFrame
    \/ \E u \in Identities : AuthChange(u) /\ CommentsFrame

SpecCommentLikes == InitCommentLikes /\ [][NextCommentLikes]_vars

EditFrame == UNCHANGED <<dbPosts, mpVars, pvVars, extraVars>>

\* CommentSection with its edit, delete and load-more controls
NextCommentEdit ==
    \/ \E f \in cs_fetches : FetchCommentsDone(f) /\ CommentsFrame
    \/ \E f \in cs_fetches : FetchCommentsFail(f) /\ CommentsFrame
    \/ \E i \in 1..Len(cs_comments) : EditClickTop(i) /\ EditFrame
    \/ \E i \in 1..Len(cs_comments) : \E j \in 1..Len(cs_comments[i].replies) :
           EditClickReply(i, j) /\ EditFrame
    \/ CancelEdit /\ EditFrame
    \/ \E i \in 1..Len(cs_comments) : \E b \in EditInputs : \E answer \in ZeroRowAnswers :
           EditSaveTop(i, b, answer) /\ EditFrame
    \/ \E i \in 1..Len(cs_comments) : \E j \in 1..Len(cs_comments[i].replies) :
           \E b \in EditInputs : \E answer \in ZeroRowAnswers :
               EditSaveReply(i, j, b, answer) /\ EditFrame
    \/ \E i \in 1..Len(cs_comments) : DeleteClickTop(i) /\ CommentsFrame
    \/ \E i \in 1..Len(cs_comments) : \E j \in 1..Len(cs_comments[i].replies) :
           DeleteClickReply(i, j) /\ CommentsFrame
    \/ handleLoadMore /\ CommentsFrame
    \/ \E u \in Identities : AuthChange(u) /\ CommentsFrame

SpecCommentEdit == InitComments /\ [][NextCommentEdit]_vars

ReloadFrame == ReloadTracked /\ UNCHANGED <<dbPosts, mpVars, pvVars, edVars, auVars, plVars, wpVars, utilVars>>

\* the comment section with its creates, its fetches and its load-more
NextCommentReload ==
    \/ \E f \in cs_fetches : FetchCommentsDone(f) /\ ReloadFrame
    \/ \E f \in cs_fetches : FetchCommentsFail(f) /\ ReloadFrame
    \/ \E b \in BodyInputs : handleSubmitComment(b) /\ ReloadFrame
    \/ \E i \in 1..Len(cs_comments) : ReplyClickTop(i) /\ ReloadFrame
    \/ \E i \in 1..Len(cs_comments) : \E b \in BodyInputs : handleSubmitReply(i, b) /\ ReloadFrame
    \/ handleLoadMore /\ ReloadFrame
    \/ \E u \in Identities : AuthChange(u) /\ ReloadFrame

SpecCommentReload == InitComments /\ [][NextCommentReload]_vars

\* the comment section with its creates, bodies at the edges of the checks
NextCommentCreate ==
    \/ \E f \in cs_fetches : FetchCommentsDone(f) /\ CommentsFrame
    \/ \E b \in BoundaryBodies : handleSubmitComment(b) /\ CommentsFrame
    \/ \E i \in 1..Len(cs_comments) : ReplyClickTop(i) /\ CommentsFrame
    \/ \E i \in 1..Len(cs_comments) : \E b \in BoundaryBodies : handleSubmitReply(i, b) /\ CommentsFrame
    \/ \E u \in Identities : AuthChange(u) /\ CommentsFrame

SpecCommentCreate == InitComments /\ [][NextCommentCreate]_vars

\* DetailPage of post 3 on screen with its comment section: the post is
\* loaded with its like count, the mount effects' fetchComments and, with
\* an identity, checkLikeStatus are in flight
InitLikes ==
    /\ dbComments = InitRows(0)
    /\ dbLikes = {<<2, "u1">>, <<1, "u2">>}
    /\ user \in Identities
    /\ authChanges = 0
    /\ cs_comments = <<>>
    /\ cs_loading = TRUE
    /\ cs_hasMore = TRUE
    /\ cs_page = 0
    /\ cs_replyingTo = 0
    /\ cs_fetches = { [pageNum |-> 0, reset |-> TRUE, user |-> user, k |-> 1] }
    /\ cs_likeCalls = {}
    /\ likeOps = 0
    /\ toast = "none"
    /\ tg = Idle
    /\ cs_editing = 0
    /\ cmut = NoCommentMutation
    /\ dbPosts = InitPosts(1)
    /\ MainPageUnmounted
    /\ dbPostLikes \in { {}, {<<3, Me>>}, {<<3, "u2">>} }
    /\ route = [page |-> "detail", postId |-> 3, userId |-> Null, mount |-> 1]
    /\ navs = 1
    /\ pv_fetches = {}
    /\ dp_post = Snap(PostRows(dbPosts)[3])
    /\ dp_loading = FALSE
    /\ dp_showDeleteModal = FALSE
    /\ pp_posts = <<>>
    /\ pp_deleteModalOpen = FALSE
    /\ pp_postToDelete = 0
    /\ my_posts = <<>>
    /\ my_likedPosts = <<>>
    /\ my_activeTab = "my-posts"
    /\ my_deleteModalOpen = FALSE
    /\ my_postToDelete = 0
    /\ ep_isFetching = TRUE
    /\ ep_isPublic = TRUE
    /\ mutation = NoMutation
    /\ elsewhere = 0
    /\ SessionStoreSettled
    /\ reload = NoReload
    /\ dp_isLiked = FALSE
    /\ dp_likesCount = PostLikesCount(dbPostLikes, 3)
    /\ dp_isLiking = FALSE
    /\ pl_calls = IF user = Null THEN {} ELSE { [op |-> "check", postId |-> 3, user |-> user] }
    /\ pl_ops = 0
    /\ EditorIdle
    /\ UtilIdle

\* the comment section inside the DetailPage on screen
CommentLikesFrame ==
    /\ route.page = "detail"
    /\ UNCHANGED <<dbPosts, mpVars, pvVars, edVars, extraVars>>

\* the identity changes under the DetailPage: the effect on [id, user] runs
\* checkLikeStatus for the new identity
AuthChangeOnDetail(u) ==
    /\ route.page = "detail"
    /\ AuthChange(u)
    /\ pl_calls' = IF u = Null THEN pl_calls
                   ELSE pl_calls \cup { [op |-> "check", postId |-> route.postId, user |-> u] }
    /\ UNCHANGED <<dp_isLiked, dp_likesCount, dp_isLiking, pl_ops, mpVars, auVars, reload,
                   wpVars, utilVars>>

NextLikes ==
    \/ \E f \in cs_fetches : FetchCommentsDone(f) /\ CommentLikesFrame
    \/ \E i \in 1..Len(cs_comments) : \E j \in 0..Len(cs_comments[i].replies) :
           LikeStart(i, j) /\ CommentLikesFrame
    \/ \E call \in cs_likeCalls : LikeSettle(call) /\ CommentLikesFrame
    \/ \E u \in Identities : AuthChangeOnDetail(u)
    \/ \E c \in pl_calls : CheckLikeStatusDone(c)
    \/ PostLikeStart
    \/ \E c \in pl_calls : PostLikeSettle(c)
    \/ LikeElsewhere

SpecLikes == InitLikes /\ [][NextLikes]_vars

\* a signed-in user on WritePage or EditPage with the form empty
InitEditor ==
    /\ CommentSectionIdle
    /\ user = Me
    /\ authChanges = 0
    /\ toast = "none"
    /\ dbPosts = InitPosts(1)
    /\ MainPageUnmounted
    /\ PagesUnmounted
    /\ SessionStoreSettled
    /\ reload = NoReload
    /\ PostLikeIdle
    /\ EditorIdle
    /\ UtilIdle

NextEditor ==
    \/ \E t \in TitleInputs : \E c \in ContentInputs : \E g \in TagInputs :
           SetForm([title |-> t, content |-> c, tags |-> g]) /\ EditorRest
    \/ WritePageSubmit /\ EditorRest
    \/ EditPageSubmit /\ EditorRest

SpecEditor == InitEditor /\ [][NextEditor]_vars

\* a signed-in user with a page of the application on screen; nothing but
\* the modal, the image pickers and the search bar is acted on
InitUtil ==
    /\ CommentSectionIdle
    /\ user = Me
    /\ authChanges = 0
    /\ toast = "none"
    /\ dbPosts = InitPosts(1)
    /\ MainPageUnmounted
    /\ PagesUnmounted
    /\ ExtraIdle

AppRest == UNCHANGED <<csOnly, user, authChanges, dbPosts, mpVars, pvVars, auVars, reload,
                       plVars, wpVars>>

NextProfileEdit ==
    \/ \E k \in NicknameInputs : \E b \in BioInputs :
           SetProfileForm([nickname |-> k, bio |-> b]) /\ AppRest /\ UNCHANGED <<upVars, sbVars>>
    \/ handleSave /\ AppRest /\ UNCHANGED <<upVars, sbVars>>

SpecProfileEdit == InitUtil /\ [][NextProfileEdit]_vars

NextUpload ==
    \/ \E file \in Files : UploadFileStart(file) /\ AppRest /\ UNCHANGED <<peVars, sbVars>>
    \/ \E j \in up_jobs : \E ok \in BOOLEAN :
           UploadFileResized(j, ok) /\ AppRest /\ UNCHANGED <<peVars, sbVars>>
    \/ \E file \in Files : handleFileSelect(file) /\ AppRest /\ UNCHANGED <<peVars, sbVars>>

SpecUpload == InitUtil /\ [][NextUpload]_vars

\* as InitUtil, local storage holding any of the stored lists
InitSearch ==
    /\ CommentSectionIdle
    /\ user = Me
    /\ authChanges = 0
    /\ toast = "none"
    /\ dbPosts = InitPosts(1)
    /\ MainPageUnmounted
    /\ PagesUnmounted
    /\ SessionStoreSettled
    /\ reload = NoReload
    /\ PostLikeIdle
    /\ EditorIdle
    /\ ProfileModalIdle
    /\ PickersIdle
    /\ \E s \in StoredLists : SearchBarMounted(s)

SearchRest == AppRest /\ UNCHANGED <<toast, peVars, upVars>>

NextSearch ==
    \/ SearchFocus /\ SearchRest
    \/ \E q \in Queries : SetQuery(q) /\ SearchRest
    \/ handleClickOutside /\ SearchRest
    \/ KeyEnter /\ SearchRest
    \/ \E down \in BOOLEAN : KeyArrow(down) /\ SearchRest
    \/ KeyEscape /\ SearchRest
    \/ handleClear /\ SearchRest
    \/ \E i \in 1..MAX_RECENT_SEARCHES : handleSuggestionClick(i) /\ SearchRest

SpecSearch == InitSearch /\ [][NextSearch]_vars

InitFeed ==
    /\ CommentSectionUnmounted
    /\ \E n \in FeedSizes : dbPosts = InitPosts(n)
    /\ MainPageMounted
    /\ PagesUnmounted
    /\ ExtraIdle

FeedFrame == UNCHANGED <<csVars, dbPosts, pvVars, extraVars>>

NextFeed ==
    \/ \E f \in mp_fetches : FetchPostsDone(f) /\ FeedFrame
    \/ \E f \in mp_fetches : FetchPostsFail(f) /\ FeedFrame
    \/ ObserverIntersect /\ FeedFrame
    \/ \E s \in Sorts : handleSortChange(s) /\ FeedFrame


SpecFeed == InitFeed /\ [][NextFeed]_vars

\* the session is restored or absent, the table holds a private and a
\* public post of each actor, the user has liked one post of each, and the
\* main page is on screen
InitPages ==
    /\ CommentSectionIdle
    /\ user \in Identities
    /\ authChanges = 0
    /\ toast = "none"
    /\ dbPosts = InitPosts(PublicPosts)
    /\ MainPageUnmounted
    /\ dbPostLikes = { <<1, Me>>, <<4, Me>> }
    /\ route = [page |-> "main", postId |-> 0, userId |-> Null, mount |-> 0]
    /\ navs = 0
    /\ pv_fetches = {}
    /\ dp_post = NoPost
    /\ dp_loading = TRUE
    /\ dp_showDeleteModal = FALSE
    /\ pp_posts = <<>>
    /\ pp_deleteModalOpen = FALSE
    /\ pp_postToDelete = 0
    /\ my_posts = <<>>
    /\ my_likedPosts = <<>>
    /\ my_activeTab = "my-posts"
    /\ my_deleteModalOpen = FALSE
    /\ my_postToDelete = 0
    /\ ep_isFetching = TRUE
    /\ ep_isPublic = TRUE
    /\ mutation = NoMutation
    /\ elsewhere = 0
    /\ ExtraIdle

PagesFrame == UNCHANGED <<csOnly, mpVars, extraVars>>

NextPages ==
    \/ \E page \in {"detail", "edit"} : \E postId \in 1..Len(dbPosts) : Navigate(page, postId, Null) /\ PagesFrame
    \/ \E userId \in Actors : Navigate("profile", 0, userId) /\ PagesFrame
    \/ \E page \in {"mypage", "main"} : Navigate(page, 0, Null) /\ PagesFrame
    \/ \E f \in pv_fetches : FetchPostDone(f) /\ PagesFrame
    \/ DetailDeleteClick /\ PagesFrame
    \/ handleDelete /\ PagesFrame
    \/ \E f \in pv_fetches : FetchUserPostsDone(f) /\ PagesFrame
    \/ \E k \in 1..Len(pp_posts) : ProfileDeleteClick(k) /\ PagesFrame
    \/ ProfileDeleteConfirm /\ PagesFrame
    \/ \E f \in pv_fetches : FetchMyPageDone(f) /\ PagesFrame
    \/ \E tab \in {"my-posts", "liked-posts"} : SetActiveTab(tab) /\ PagesFrame
    \/ \E k \in 1..Len(my_posts) : MyDeleteClick(k) /\ PagesFrame
    \/ MyDeleteConfirm /\ PagesFrame
    \/ \E f \in pv_fetches : FetchEditDone(f) /\ PagesFrame
    \/ \E isPublic \in BOOLEAN : EditSubmit(isPublic) /\ PagesFrame
    \/ \E postId \in 1..Len(dbPosts) : \E isPublic \in BOOLEAN : EditElsewhere(postId, isPublic) /\ PagesFrame
    \/ \E u \in Identities : AuthChange(u) /\ PagesFrame


SpecPages == InitPages /\ [][NextPages]_vars

\* AuthProvider mounted: no identity yet, loading, getSession() pending;
\* the profile row of the user may be missing
InitAuth ==
    /\ CommentSectionUnmounted
    /\ dbPosts = InitPosts(0)
    /\ MainPageUnmounted
    /\ PagesUnmounted
    /\ session \in Identities
    /\ profile = NoProfile
    /\ loading = TRUE
    /\ dbProfiles \in { {}, {ProfileRow(Me)} }
    /\ au_calls = {}
    /\ au_loads = 0
    /\ au_init = "pending"
    /\ au_notes = <<>>
    /\ au_changes = 0
    /\ au_out = "idle"
    /\ au_inserts = 0
    /\ au_retries = 0
    /\ au_path = "/"
    /\ reload = NoReload
    /\ PostLikeIdle
    /\ EditorIdle
    /\ UtilIdle

AuthRest == UNCHANGED <<csOnly, authChanges, dbPosts, mpVars, pvVars, reload, plVars, wpVars, utilVars>>

AuthFrame == AuthRest /\ UNCHANGED toast

NextAuth ==
    \/ GetSessionThen /\ AuthFrame
    \/ \E s \in Identities : SessionChange(s) /\ AuthFrame
    \/ OnAuthStateChange /\ AuthFrame
    \/ \E c \in au_calls : LoadProfileSelected(c) /\ AuthFrame
    \/ \E c \in au_calls : LoadProfileGotUser(c) /\ AuthFrame
    \/ \E c \in au_calls : LoadProfileInserted(c) /\ AuthFrame
    \/ SignOutStart /\ AuthFrame
    \/ SignOutReturns /\ AuthFrame
    \/ \E p \in Paths : GoTo(p) /\ AuthFrame
    \/ ProtectedRedirect /\ AuthRest

SpecAuth == InitAuth /\ [][NextAuth]_vars

\* ------------------------------------------------------------------------
\* Comments: nesting, likes, soft delete, thread building
\* ------------------------------------------------------------------------
\* C1: every comment with a parent has a top-level parent; no insert that
\* handleSubmitReply issues is turned down for its depth, so each carries
\* the id of a top-level comment; and an insert whose parent is itself a
\* reply leaves the table as it was.
C1_DepthAtMostTwo ==
    /\ \A k \in 1..Len(dbComments) :
           dbComments[k].parent_comment_id # 0 =>
               /\ dbComments[k].parent_comment_id \in 1..Len(dbComments)
               /\ dbComments[dbComments[k].parent_comment_id].parent_comment_id = 0
    /\ toast # "depth-error"
    /\ \A p \in 1..Len(dbComments) :
           dbComments[p].parent_comment_id # 0 =>
               InsertComment(dbComments,
                   [parent_comment_id |-> p, user_id |-> Me,
                    is_deleted |-> FALSE, content |-> 5]) = dbComments

\* a reply written in the view's reply box has just been stored
C1_ReplyStored ==
    /\ toast = "reply-created"
    /\ dbComments[Len(dbComments)].parent_comment_id # 0
    /\ dbComments[Len(dbComments)].user_id = Me

\* C2: after two successive like toggles of one comment or reply by one
\* user, the backend (comment, user) pair, the local is_liked flag and the
\* local likes_count are what they were before the first toggle.
C2_DoubleToggleRestores ==
    tg.phase = "t2_done" =>
        LET c == Entry(cs_comments, tg.i, tg.j)
        IN  /\ (<<c.id, tg.u>> \in dbLikes) = tg.pair
            /\ c.is_liked = tg.flag
            /\ c.likes_count = tg.count

\* C3: wherever the list holds a deleted comment or reply, the placeholder
\* stands in place of its content and a reply into its thread can be
\* started from the view.
C3_DeletedStillRepliable ==
    ListShown =>
        \A i \in 1..Len(cs_comments) :
            LET c == cs_comments[i]
            IN  /\ c.is_deleted =>
                       RenderedBody(c) = "deleted-placeholder" /\ ReplyStartable(c)
                /\ \A j \in 1..Len(c.replies) :
                       c.replies[j].is_deleted =>
                           /\ RenderedBody(c.replies[j]) = "deleted-placeholder"
                           /\ ReplyStartable(c)

\* C4: a deleted top-level comment still appears as a placeholder, and
\* every reply attached to it in the list is displayed beneath it.
C4_ThreadShapeKept ==
    ListShown =>
        \A i \in 1..Len(cs_comments) :
            cs_comments[i].is_deleted =>
                /\ RenderedBody(cs_comments[i]) = "deleted-placeholder"
                /\ DisplayedReplies(cs_comments[i]) = cs_comments[i].replies

\* C5: a successful handleDeleteComment keeps the row and sets its flag,
\* marks the local entry with that id, top-level or reply, as deleted,
\* leaves every other entry, the page index and hasMore as they were, and
\* issues no fetch.
C5_SoftDeletePatchesInPlace ==
    [][ toast' = "comment-deleted" =>
          /\ Len(dbComments') = Len(dbComments)
          /\ cs_page' = cs_page
          /\ cs_hasMore' = cs_hasMore
          /\ cs_fetches' = cs_fetches
          /\ Len(cs_comments') = Len(cs_comments)
          /\ \A i \in 1..Len(cs_comments) :
                 /\ cs_comments'[i].id = cs_comments[i].id
                 /\ cs_comments'[i].is_deleted =
                        (\/ cs_comments[i].is_deleted
                         \/ /\ dbComments'[cs_comments[i].id].is_deleted
                            /\ ~dbComments[cs_comments[i].id].is_deleted)
                 /\ Len(cs_comments'[i].replies) = Len(cs_comments[i].replies)
                 /\ \A j \in 1..Len(cs_comments[i].replies) :
                        /\ cs_comments'[i].replies[j].id = cs_comments[i].replies[j].id
                        /\ cs_comments'[i].replies[j].is_deleted =
                               (\/ cs_comments[i].replies[j].is_deleted
                                \/ /\ dbComments'[cs_comments[i].replies[j].id].is_deleted
                                   /\ ~dbComments[cs_comments[i].replies[j].id].is_deleted)
      ]_vars

\* the ids of a list of rows, in order
IdsOf(rows) == [ k \in 1..Len(rows) |-> rows[k].id ]

\* how often id stands in the replies lists of tree
TimesAttached(tree, id) ==
    Cardinality({ <<i, j>> \in (1..Len(tree)) \X (1..COMMENTS_PER_PAGE) :
                     j <= Len(tree[i].replies) /\ tree[i].replies[j].id = id })

\* C6: in the tree built from any one page, the rows without a parent are
\* the top-level nodes in fetched order; a row whose parent is in the page
\* stands once in that parent's replies and nowhere else; a row whose
\* parent is not in the page stands nowhere in the tree.
C6_ThreadBuildPageLocal ==
    \A pageNum \in 0..MaxPage :
        LET rows == PageRows(dbComments, pageNum)
            tree == BuildPage(dbComments, dbLikes, user, pageNum)
            NoParent(r) == r.parent_comment_id = 0
            InPage(id) == \E k \in 1..Len(rows) : rows[k].id = id
        IN  /\ IdsOf(tree) = IdsOf(SelectSeq(rows, NoParent))
            /\ \A k \in 1..Len(rows) :
                   rows[k].parent_comment_id # 0 =>
                       IF InPage(rows[k].parent_comment_id)
                       THEN /\ TimesAttached(tree, rows[k].id) = 1
                            /\ \E i \in 1..Len(tree) :
                                   /\ tree[i].id = rows[k].parent_comment_id
                                   /\ \E j \in 1..Len(tree[i].replies) :
                                          tree[i].replies[j].id = rows[k].id
                       ELSE TimesAttached(tree, rows[k].id) = 0

\* both pages have been fetched into the list: the first holds a reply
\* whose parent is on the second, the second a reply next to its parent
C6_BothPagesBuilt ==
    /\ cs_fetches = {}
    /\ cs_page = 1
    /\ cs_comments = BuildPage(dbComments, dbLikes, user, 0)
                      \o BuildPage(dbComments, dbLikes, user, 1)
    /\ LET rows == PageRows(dbComments, 0)
       IN  \E k \in 1..Len(rows) :
               /\ rows[k].parent_comment_id # 0
               /\ \A i \in 1..Len(rows) : rows[i].id # rows[k].parent_comment_id
    /\ \E i \in 1..Len(cs_comments) : cs_comments[i].replies # <<>>

\* C11: an update of a comment's body is sent only while the current user
\* is the comment's author and carries the filter user_id = current user;
\* it changes nothing but the body of that one comment.
C11_EditOnlyByAuthor ==
    /\ [](cmut.kind = "edit" => cmut.by = cmut.owner /\ cmut.filter = cmut.by)
    /\ [][ cmut' # cmut =>
             /\ Len(dbComments') = Len(dbComments)
             /\ \A k \in 1..Len(dbComments) :
                    /\ k # cmut'.id => dbComments'[k] = dbComments[k]
                    /\ [dbComments'[k] EXCEPT !.content = dbComments[k].content]
                           = dbComments[k] ]_vars

\* ------------------------------------------------------------------------
\* Main feed: pagination and sort change
\* ------------------------------------------------------------------------
\* C7: every fetch adds at most PAGE_SIZE posts to the feed, and once a
\* page fetched for the listing shown has come back short, hasMore is
\* false and no further page is requested until a sort order is chosen.
C7_FeedPagination ==
    /\ [](mp_short => ~mp_hasMore)
    /\ [][ /\ Len(mp_posts') <= Len(mp_posts) + POSTS_PER_PAGE
           /\ (mp_short /\ mp_short') => mp_fetches' \subseteq mp_fetches ]_vars

\* C8: after a change of sort order, once every fetch has settled, the feed
\* holds only rows of fetches issued under the sort order now shown.
C8_SortChangeReplaces ==
    (mp_epoch > 0 /\ mp_fetches = {}) =>
        \A k \in 1..Len(mp_posts) : mp_posts[k].epoch = mp_epoch

\* ------------------------------------------------------------------------
\* Posts: visibility and ownership
\* ------------------------------------------------------------------------
\* C9: the view on screen holds a post whose visibility flag is private
\* only while the viewer is the author of that post.
C9_PrivateOnlyForAuthor ==
    \A p \in Held : ~p.is_public => p.author_id = user

\* C10: every update or delete of a post sent to the backend is sent by
\* the post's author and carries the author filter set to the sender.
C10_MutationByAuthorWithFilter ==
    mutation.kind # "none" =>
        /\ mutation.by = mutation.author
        /\ mutation.filter = mutation.by

\* ------------------------------------------------------------------------
\* Session store and route guard: claims
\* ------------------------------------------------------------------------
\* C12: on each of the guarded routes (/write, /edit/:id, /mypage) the
\* guarded page is never rendered while the user is null; the loading view
\* is rendered while the store is loading, the redirect to /login once
\* loading is false and the user is null, and the page once loading is
\* false and the user is set.
C12_ProtectedRouteGuards ==
    \A p \in GuardedPaths :
        /\ user = Null => Element(p) # PageOf(p)
        /\ loading => Element(p) = "loading-view"
        /\ ~loading /\ user = Null => Element(p) = "redirect-login"
        /\ ~loading /\ user # Null => Element(p) = PageOf(p)

\* the store has finished loading while the identity is set and a guarded
\* route is on screen with its page
C12_GuardedPageShown ==
    /\ au_path = "/mypage"
    /\ au_init = "done"
    /\ ~loading
    /\ user = Me
    /\ Element(au_path) = "MyPage"

\* C13: the step on which signOut returns leaves the store with no user and
\* no profile, whether or not the listener has run on the sign-out's
\* notification.
C13_SignOutClearsStore ==
    [][ au_out = "awaiting" /\ au_out' = "returned" =>
            user' = Null /\ profile' = NoProfile ]_vars

\* signOut has returned on a store whose profile was loaded, the store is
\* cleared, and the notification of the sign-out still waits for the listener
C13_ClearedBeforeNotification ==
    /\ au_out = "returned"
    /\ user = Null
    /\ profile = NoProfile
    /\ au_loads > 0
    /\ au_calls = {}
    /\ ProfileRow(Me) \in dbProfiles
    /\ \E i \in 1..Len(au_notes) : au_notes[i] = Null

\* C14: a loadProfile call is made again only after an insert of its own,
\* once per insert; and when every load has ended with the user's row in
\* the table, the store's profile is that row, whatever the order in which
\* the initial-session load and the session-change load ran.
C14_ProfileProvisioned ==
    /\ au_retries <= au_inserts
    /\ ( /\ au_out = "idle"
         /\ au_init = "done"
         /\ au_notes = <<>>
         /\ au_calls = {}
         /\ user # Null
         /\ ProfileRow(user) \in dbProfiles )
       => profile = ProfileRow(user)

\* ------------------------------------------------------------------------
\* Comment section: reload after a create
\* ------------------------------------------------------------------------
\* C15: once the reload that follows a successful create of a comment or a
\* reply has settled, the list is the thread built from page 0 (for the
\* identity the reload was sent under), the page index is 0 and nothing of
\* a later page is in the list.
C15_ReloadReplacesList ==
    reload.phase = "settled" =>
        /\ cs_page = 0
        /\ \E u \in Identities : cs_comments = BuildPage(dbComments, dbLikes, u, 0)

\* ------------------------------------------------------------------------
\* Likes of comments and of the post: claims
\* ------------------------------------------------------------------------
\* the like calls of the DetailPage among calls
LikeCallsIn(calls) == { c \in calls : c.op # "check" }

C17_DuplicateLikeFails ==
    [][ /\ \A call \in cs_likeCalls \ cs_likeCalls' :
               ~call.isLiked /\ <<call.commentId, call.user>> \in dbLikes =>
                   /\ toast' = "like-error"
                   /\ cs_comments' = cs_comments
                   /\ dbLikes' = dbLikes
                   /\ cs_likeCalls' = cs_likeCalls \ {call}
        /\ \A c \in LikeCallsIn(pl_calls) \ pl_calls' :
               c.op = "insert" /\ <<c.postId, c.user>> \in dbPostLikes =>
                   /\ toast' = "already-liked"
                   /\ dp_isLiked' = dp_isLiked
                   /\ dp_likesCount' = dp_likesCount
                   /\ dbPostLikes' = dbPostLikes
                   /\ pl_calls' = pl_calls \ {c}
        /\ likeOps' # likeOps =>
               /\ cs_likeCalls \subseteq cs_likeCalls'
               /\ Cardinality(cs_likeCalls') = Cardinality(cs_likeCalls) + 1
        /\ likeOps' = likeOps => cs_likeCalls' \subseteq cs_likeCalls
        /\ pl_ops' # pl_ops /\ user # Null =>
               /\ pl_calls \subseteq pl_calls'
               /\ Cardinality(pl_calls') = Cardinality(pl_calls) + 1
        /\ pl_ops' = pl_ops => LikeCallsIn(pl_calls') \subseteq LikeCallsIn(pl_calls) ]_vars

\* the post's like button was pressed while the page did not show the like
\* the user already has: the insert was refused and the page is as before
C17_DuplicatePostLikeRefused ==
    /\ toast = "already-liked"
    /\ ~dp_isLiked
    /\ pl_ops > 0
    /\ pl_calls = {}
    /\ <<route.postId, user>> \in dbPostLikes

\* ------------------------------------------------------------------------
\* Comment section: updates that match no row
\* ------------------------------------------------------------------------
\* C18: an update of a comment whose filter on user_id matches no row is
\* shown as a no-permission error: it is not reported as a success and the
\* state of the view is not touched.
C18_ZeroRowsIsNoPermission ==
    [][ cmut' # cmut /\ cmut'.matched = 0 =>
            /\ toast' = "no-permission"
            /\ UNCHANGED <<cs_comments, cs_editing, cs_page, cs_fetches>> ]_vars

\* ------------------------------------------------------------------------
\* Comment section: what a create sends
\* ------------------------------------------------------------------------
\* C19: a comment or a reply is inserted only for a signed-in user and a
\* body of 1 to 1000 characters; a submission that is turned down inserts
\* nothing and leaves the list as it was, so every inserted body has 1 to
\* 1000 characters.
C19_CreateValidated ==
    [][ /\ dbComments' # dbComments =>
              /\ Len(dbComments') = Len(dbComments) + 1
              /\ user # Null
              /\ dbComments'[Len(dbComments')].user_id = user
              /\ dbComments'[Len(dbComments')].content \in 1..MAX_COMMENT_LENGTH
        /\ toast' \in {"login-required", "empty", "too-long"} =>
              /\ dbComments' = dbComments
              /\ cs_comments' = cs_comments
              /\ cs_fetches' = cs_fetches ]_vars

\* a reply of exactly 1000 characters has been inserted under comment 1
C19_LongestReplyInserted ==
    /\ Len(dbComments) = 4
    /\ dbComments[4].content = MAX_COMMENT_LENGTH
    /\ dbComments[4].parent_comment_id = 1
    /\ dbComments[4].user_id = Me
    /\ toast = "reply-created"

\* ------------------------------------------------------------------------
\* WritePage and EditPage: claims
\* ------------------------------------------------------------------------
\* C20: a post whose trimmed title has fewer than 2 characters or whose
\* trimmed body has fewer than 10 is turned down with a message and no
\* call is sent; a title of 2 characters with a body of 10 is sent; and
\* every insert and update of a post carries at most 5 tags.
C20_PostValidated ==
    [][ /\ wp_call' # wp_call =>
              /\ wp_call'.n = wp_call.n + 1
              /\ wp_call'.title = wp_form.title.trimmed /\ wp_call'.title >= 2
              /\ wp_call'.content = wp_form.content.trimmed /\ wp_call'.content >= 10
              /\ Len(wp_call'.tags) <= 5
        /\ wp_form' = wp_form /\ (wp_form.title.trimmed < 2 \/ wp_form.content.trimmed < 10) =>
              /\ toast' \in {"title-too-short", "content-too-short"}
              /\ wp_call' = wp_call
              /\ dbPosts' = dbPosts
        /\ wp_form' = wp_form /\ toast' \in {"title-too-short", "content-too-short"} =>
              wp_form.title.trimmed < 2 \/ wp_form.content.trimmed < 10 ]_vars

\* a post with a title of 2 characters, a body of 10 and more than five tags
\* typed has been inserted with five tags
C20_ShortestPostSent ==
    /\ wp_call.kind = "insert"
    /\ wp_call.title = 2
    /\ wp_call.content = 10
    /\ Len(AllTags(wp_form.tags)) > 5
    /\ Len(wp_call.tags) = 5
    /\ toast = "post-created"

\* ------------------------------------------------------------------------
\* ProfileEditModal: claims
\* ------------------------------------------------------------------------
\* C21: the nickname is validated before any update of the profile: every
\* nickname handleSave writes has between 2 and 20 characters, and a save
\* that is turned down sends no update.
C21_NicknameValidated ==
    [][ /\ pe_call' # pe_call => pe_call'.nickname \in 2..20
        /\ pe_form' = pe_form /\ toast' \in {"nickname-required", "nickname-length", "bio-length"}
               => pe_call' = pe_call ]_vars

\* ------------------------------------------------------------------------
\* Image pickers: claims
\* ------------------------------------------------------------------------
\* C22: every upload call made by either picker carries a file whose MIME
\* type is on the allow-list and whose size is at most 5MB, and was preceded
\* by the resize.
C22_UploadValidated ==
    \A c \in up_uploads :
        /\ c.file.type \in ALLOWED_TYPES
        /\ c.file.size <= MAX_SIZE
        /\ c.resized

\* ------------------------------------------------------------------------
\* SearchBar: claims
\* ------------------------------------------------------------------------
\* no term occurs twice in s
NoTermTwice(s) == \A i, j \in 1..Len(s) : s[i] = s[j] => i = j

\* the terms of s occur in t, in the order they have in s
InOrderOf(s, t) ==
    \A i, j \in 1..Len(s) :
        i < j => \E a, b \in 1..Len(t) : a < b /\ t[a] = s[i] /\ t[b] = s[j]

\* C23: after a search the list of recent searches has at most 5 entries,
\* holds no term twice, starts with the trimmed term just searched, keeps
\* the other terms in the order they had, and equals the stored copy; a
\* query that is empty after trimming changes neither list and navigates
\* nowhere.
C23_RecentListKept ==
    [][ sb_asked' # sb_asked =>
          IF Trim(sb_asked'.q) = ""
          THEN sb_recent' = sb_recent /\ sb_stored' = sb_stored /\ sb_asked'.nav = sb_asked.nav
          ELSE /\ Len(sb_recent') <= 5
               /\ NoTermTwice(sb_recent')
               /\ sb_recent'[1] = sb_asked'.q.term
               /\ InOrderOf(Tail(sb_recent'), sb_recent)
               /\ Len(sb_recent') =
                     IF \E i \in 1..Len(sb_recent) : sb_recent[i] = sb_asked'.q.term
                     THEN Len(sb_recent) ELSE Min(Len(sb_recent) + 1, 5)
               /\ sb_stored' = sb_recent'
               /\ sb_asked'.nav = sb_asked.nav + 1 ]_vars

\* a new term has been searched on a full list, and a stored term searched
\* again after it
C23_FullListSearched ==
    /\ sb_asked.n = 2
    /\ sb_recent = <<"c", "f", "a", "b", "d">>
    /\ sb_stored = sb_recent

\* C30: Enter on a typed query that is not blank searches the typed query,
\* unless an arrow key has highlighted a suggestion since the last completed
\* search or clear.
C30_EnterSearchesTyped ==
    [][ sb_asked' # sb_asked /\ sb_key' = "enter" /\ Trim(sb_query) # "" /\ ~sb_arrowed
          => sb_asked'.nav = sb_asked.nav + 1 /\ sb_asked'.term = Trim(sb_query) ]_vars

\* ------------------------------------------------------------------------
\* CommentSection: like counts
\* ------------------------------------------------------------------------
\* C24: the likes_count of every comment of the list, thread or reply, is
\* never negative.
C24_LikesCountNotNegative ==
    \A i \in 1..Len(cs_comments) :
        /\ cs_comments[i].likes_count >= 0
        /\ \A j \in 1..Len(cs_comments[i].replies) : cs_comments[i].replies[j].likes_count >= 0

\* ------------------------------------------------------------------------
\* Session store: profile of a signed-out identity
\* ------------------------------------------------------------------------
\* C25: whenever no profile lookup is in flight (and no notification or
\* signOut is pending), a store without a user holds no profile.
C25_NoProfileWithoutUser ==
    au_calls = {} /\ au_notes = <<>> /\ au_out # "awaiting" /\ au_init = "done" /\ user = Null
        => profile = NoProfile

\* ------------------------------------------------------------------------
\* Accumulated lists: duplicates and page order
\* ------------------------------------------------------------------------
\* C26 (comment threads): no comment id occurs twice among the top-level
\* threads of the list.
C26_NoCommentTwice ==
    \A i, j \in 1..Len(cs_comments) : cs_comments[i].id = cs_comments[j].id => i = j

\* C27 (comment threads): a failed fetch of page N that was asked for by
\* load-more leaves the page counter below N, so that the next load-more
\* asks for page N again.
C27_FailedPageAskedAgain ==
    [][ \A f \in cs_fetches :
            ~f.reset /\ cs_fetches' = cs_fetches \ {f} /\ toast' = "fetch-error"
                => cs_page' < f.pageNum ]_vars

\* C28: choosing a sort order never leaves a feed that held posts empty
\* with no fetch in flight.
C28_SortChoiceRefetches ==
    [][ mp_posts # <<>> /\ mp_posts' = <<>> => mp_fetches' # {} ]_vars

\* ------------------------------------------------------------------------
\* DetailPage: the author's own private post
\* ------------------------------------------------------------------------
\* C29: when the fetch of the DetailPage on screen answers for a private
\* post whose author is the signed-in user, the post is shown and the page
\* is not left.
C29_AuthorOpensPrivatePost ==
    [][ \A f \in pv_fetches :
            /\ f.page = "detail" /\ Mounted(f) /\ f \notin pv_fetches'
            /\ user # Null
            /\ dbPosts[f.postId].live
            /\ ~dbPosts[f.postId].is_public
            /\ dbPosts[f.postId].author_id = user
            => route'.page = "detail" /\ dp_post' # NoPost ]_vars

====
